---- MODULE Spec2Model ----
(***************************************************************************)
(* PatriciaC: a PATRICIA tree with dual-use nodes (src/src/cpatricia.c).   *)
(*                                                                         *)
(* Node storage is a heap of node records indexed by node identity; the    *)
(* identity 0 is the root sentinel embedded in PatriciaMapT.  Keys are     *)
(* byte buffers (a sequence of bytes 0..255) with a bit length.  Every     *)
(* public operation is an operator on the heap that is computed the way    *)
(* the C code computes it, and one action applies it.                      *)
(***************************************************************************)
EXTENDS Integers, Sequences, FiniteSets, TLC

\* ---- bounds of the model ------------------------------------------------
MaxNodes == 3
MaxBit == 2

\* ---- program constants --------------------------------------------------
CHAR_BIT == 8
UCHAR_MAX == 255
SizeofSizeT == 8
Poison16 == 65278

Root == 0
NULL == -1
UNINIT == -2
BADPTR == -3
BADWORD == -4
NodeIds == 1..MaxNodes
Ids == 0..MaxNodes

\* ---- bytes as bit vectors ------------------------------------------------
Pow2(n) == 2^n
Uint16(v) == v % Pow2(16)
\* bit i (0 = most significant) of a byte
ByteBit(b, i) == (b \div Pow2(7 - i)) % 2
ByteOfBits(f) ==
    f[0]*128 + f[1]*64 + f[2]*32 + f[3]*16 + f[4]*8 + f[5]*4 + f[6]*2 + f[7]
ByteXor(a, b) == IF a = b THEN 0 ELSE ByteOfBits([i \in 0..7 |-> (ByteBit(a, i) + ByteBit(b, i)) % 2])
ByteAnd(a, b) == ByteOfBits([i \in 0..7 |-> ByteBit(a, i) * ByteBit(b, i)])
ByteOr(a, b) ==
    ByteOfBits([i \in 0..7 |-> IF ByteBit(a, i) + ByteBit(b, i) > 0 THEN 1 ELSE 0])
ByteNot(a) == UCHAR_MAX - a
\* byte at C offset off of a buffer (sequences are 1-based)
At(buf, off) == buf[off + 1]

\* ---- key access: bit extraction ------------------------------------------
\* mutant: a bit beyond the key reads as the last bit, not as its complement
patricia_getbit_noflip(base, bitlen, bitidx) ==
    IF bitidx = 0 THEN 0
    ELSE IF bitlen = 0 THEN (IF bitidx > bitlen THEN 1 ELSE 0)
    ELSE LET idx == (IF bitidx > bitlen THEN bitlen ELSE bitidx) - 1
         IN  ByteBit(At(base, idx \div 8), idx % 8)
\* mutant: the bits of a byte are counted from its low end
patricia_getbit_lsb(base, bitlen, bitidx) ==
    IF bitidx = 0 THEN 0
    ELSE LET neg == bitidx > bitlen
         IN  IF bitlen = 0 THEN (IF neg THEN 1 ELSE 0)
             ELSE LET idx == (IF neg THEN bitlen ELSE bitidx) - 1
                      bit == ByteBit(At(base, idx \div 8), 7 - (idx % 8))
                  IN  IF neg THEN 1 - bit ELSE bit
patricia_getbit(base, bitlen, bitidx) ==
    IF bitidx = 0 THEN 0
    ELSE LET neg == bitidx > bitlen
         IN  IF bitlen = 0 THEN (IF neg THEN 1 ELSE 0)
             ELSE LET idx == (IF neg THEN bitlen ELSE bitidx) - 1
                      bit == ByteBit(At(base, idx \div 8), idx % 8)
                  IN  IF neg THEN 1 - bit ELSE bit

\* ---- key access: exact equality ------------------------------------------
\* mutant: only the whole bytes are compared, the bits of a partial last byte are skipped
patricia_equkey_nomask(p1, l1, p2, l2) ==
    (l1 = l2) /\ \A i \in 0..((l1 \div CHAR_BIT) - 1) : At(p1, i) = At(p2, i)
patricia_equkey(p1, l1, p2, l2) ==
    IF l1 # l2 THEN FALSE
    ELSE LET bytes == l1 \div CHAR_BIT
             ebits == l1 % CHAR_BIT
         IN  IF \E i \in 0..(bytes - 1) : At(p1, i) # At(p2, i) THEN FALSE
             ELSE IF ebits # 0
                  THEN LET mask == (UCHAR_MAX * Pow2(CHAR_BIT - ebits)) % 256
                       IN  ByteAnd(ByteXor(At(p1, bytes), At(p2, bytes)), mask) = 0
                  ELSE TRUE

\* ---- key access: first difference position -------------------------------
\* A limb (size_t) is held as its SizeofSizeT bytes in memory order (accu.acv),
\* a tuple indexed from 1.
LimbBits == SizeofSizeT * CHAR_BIT
LimbIdx == 0..(SizeofSizeT - 1)
Limb(f) == <<f[0], f[1], f[2], f[3], f[4], f[5], f[6], f[7]>>

BitStream(p, l) == [buf |-> p, ptr |-> 0, bits |-> l, last |-> patricia_getbit(p, l, l)]

\* mutant: the partial load keeps the unused bits of the last byte as they are
nextbits_noflush(bs) ==
    IF bs.bits >= LimbBits
    THEN LET full == [i \in LimbIdx |-> At(bs.buf, bs.ptr + i)]
         IN  [acv |-> Limb(full),
              bs  |-> [bs EXCEPT !.ptr = @ + SizeofSizeT, !.bits = @ - LimbBits]]
    ELSE IF bs.bits = 0
    THEN LET ext == [i \in LimbIdx |-> IF bs.last = 1 THEN 0 ELSE UCHAR_MAX]
         IN  [acv |-> Limb(ext), bs |-> bs]
    ELSE LET bytes == (bs.bits + CHAR_BIT - 1) \div CHAR_BIT
             fill  == IF bs.last = 1 THEN 0 ELSE UCHAR_MAX
             part  == [i \in LimbIdx |-> IF i < bytes THEN At(bs.buf, bs.ptr + i) ELSE fill]
         IN  [acv |-> Limb(part),
              bs  |-> [bs EXCEPT !.ptr = @ + bytes, !.bits = 0]]

\* nextbits: the limb read and the advanced stream
nextbits(bs) ==
    IF bs.bits >= LimbBits
    THEN LET full == [i \in LimbIdx |-> At(bs.buf, bs.ptr + i)]
         IN  [acv |-> Limb(full),
              bs  |-> [bs EXCEPT !.ptr = @ + SizeofSizeT, !.bits = @ - LimbBits]]
    ELSE IF bs.bits = 0
    THEN LET ext == [i \in LimbIdx |-> IF bs.last = 1 THEN 0 ELSE UCHAR_MAX]
         IN  [acv |-> Limb(ext), bs |-> bs]
    ELSE LET bytes == (bs.bits + CHAR_BIT - 1) \div CHAR_BIT
             ebits == bs.bits % CHAR_BIT
             fill  == IF bs.last = 1 THEN 0 ELSE UCHAR_MAX
             raw(i) == IF i < bytes THEN At(bs.buf, bs.ptr + i) ELSE fill
             part == [i \in LimbIdx |->
                 IF i = bytes - 1 /\ ebits # 0
                 THEN IF bs.last = 1
                      THEN ByteAnd(raw(i), ByteNot(UCHAR_MAX \div Pow2(ebits)))
                      ELSE ByteOr(raw(i), UCHAR_MAX \div Pow2(ebits))
                 ELSE raw(i)]
         IN  [acv |-> Limb(part),
              bs  |-> [bs EXCEPT !.ptr = @ + bytes, !.bits = 0]]

\* leading zero bits of one byte
ByteClz(b) == IF b = 0 THEN CHAR_BIT
              ELSE CHOOSE n \in 0..7 : ByteBit(b, n) = 1 /\ \A m \in 0..(n - 1) : ByteBit(b, m) = 0

\* bswapz (little endian target) followed by patricia_clz: the limb's bytes in
\* memory order are its most significant bytes first after the swap.
patricia_clz(acv) ==
    IF \A i \in 1..SizeofSizeT : acv[i] = 0 THEN LimbBits
    ELSE LET k == CHOOSE i \in 1..SizeofSizeT : acv[i] # 0 /\ \A j \in 1..(i - 1) : acv[j] = 0
         IN  (k - 1) * CHAR_BIT + ByteClz(acv[k])

\* the stream after n calls of nextbits: full limbs while 64 bits or more are
\* left, then the partial load that takes the rest, then no change
stream_skip(bs, n) ==
    LET full == bs.bits \div LimbBits
        rest == bs.bits % LimbBits
    IN  IF n <= full
        THEN [bs EXCEPT !.ptr = @ + n * SizeofSizeT, !.bits = @ - n * LimbBits]
        ELSE [bs EXCEPT !.ptr = @ + full * SizeofSizeT + (rest + CHAR_BIT - 1) \div CHAR_BIT,
                        !.bits = 0]

\* the for loop of patricia_bitdiff: the first round whose limbs differ ends
\* it; round w (from 0) reads each stream after w calls of nextbits, with
\* bpos advanced w times in 16 bits
bitdiff_loop(bs1, bs2, words, bpos) ==
    LET n1(w)   == nextbits(stream_skip(bs1, w)).acv
        n2(w)   == nextbits(stream_skip(bs2, w)).acv
        rounds  == {w \in 0..(words - 1) : n1(w) # n2(w)}
    IN  IF rounds = {} THEN -1
        ELSE LET w    == CHOOSE x \in rounds : \A y \in rounds : x <= y
                 accu == Limb([i \in LimbIdx |-> ByteXor(n1(w)[i + 1], n2(w)[i + 1])])
             IN  Uint16(Uint16(bpos + w * LimbBits) + patricia_clz(accu))

\* -1 of the loop: no limb differed
patricia_bitdiff(p1, l1, p2, l2) ==
    LET bits  == IF l2 > l1 THEN l2 ELSE l1
        words == (bits + LimbBits - 1) \div LimbBits
        found == bitdiff_loop(BitStream(p1, l1), BitStream(p2, l2), words, 1)
    IN  IF found # -1 THEN found
        ELSE IF l1 = l2 THEN 0 ELSE Uint16(bits + 1)

\* ---- node storage ---------------------------------------------------------
\* struct pt_map_node_: child[0] and child[1] are child[1] and child[2] here.
Node(c0, c1, pl, bp, nb, dt) ==
    [child |-> <<c0, c1>>, payload |-> pl, bpos |-> bp, nbit |-> nb, data |-> dt]

\* storage that is not a node of the tree: never allocated, or purged by ptnode_free
\* (the header filled with 0xFE bytes, data[0] = NUL)
FreedNode == Node(BADPTR, BADPTR, BADWORD, Poison16, Poison16, <<0>>)

Child(h, n, i) == h[n].child[i + 1]
SetChild(h, n, i, v) == [h EXCEPT ![n].child[i + 1] = v]

\* patricia_init_ex: the root sentinel, zeroed, with both slots on itself
patricia_init == [n \in Ids |-> IF n = Root THEN Node(Root, Root, 0, 0, 0, <<0>>) ELSE FreedNode]

_isParentOf(h, p, x) == (Child(h, p, 0) = x) \/ (Child(h, p, 1) = x)
\* mutant: the slot that holds x is taken, not the other one
_otherIdx_same(h, p, x) == IF Child(h, p, 1) = x THEN 1 ELSE 0
_otherIdx(h, p, x) == IF Child(h, p, 0) = x THEN 1 ELSE 0
\* mutant: the slot that does not hold x is taken
_childIdx_other(h, p, x) == IF Child(h, p, 1) = x THEN 0 ELSE 1
\* mutant: the slot of the first child is taken whichever slot holds x
_childIdx_zero(h, p, x) == 0
_childIdx(h, p, x) == IF Child(h, p, 1) = x THEN 1 ELSE 0

\* ptnode_create: header zeroed, nbit and the key bytes copied, a NUL appended
ptnode_create(keystr, bitlen) ==
    LET bytelen == (bitlen + CHAR_BIT - 1) \div CHAR_BIT
    IN  Node(NULL, NULL, 0, 0, bitlen, SubSeq(keystr, 1, bytelen) \o <<0>>)

\* ---- search ---------------------------------------------------------------
\* the descent loop shared by lookup, prefix and the first walk of insert
RECURSIVE descend(_, _, _, _, _)
descend(h, key, bitlen, node, opos) ==
    IF h[node].bpos > opos
    THEN descend(h, key, bitlen, Child(h, node, patricia_getbit(key, bitlen, h[node].bpos)),
                 h[node].bpos)
    ELSE node

patricia_lookup(h, key, bitlen) ==
    LET node == descend(h, key, bitlen, Child(h, Root, 0), h[Root].bpos)
    IN  IF patricia_equkey(key, bitlen, h[node].data, h[node].nbit) THEN node ELSE NULL

RECURSIVE prefix_loop(_, _, _, _, _, _)
prefix_loop(h, key, bitlen, node, opos, best) ==
    IF h[node].bpos > opos
    THEN LET hit == (h[node].nbit <= bitlen)
                    /\ patricia_equkey(key, h[node].nbit, h[node].data, h[node].nbit)
         IN  prefix_loop(h, key, bitlen,
                         Child(h, node, patricia_getbit(key, bitlen, h[node].bpos)),
                         h[node].bpos, IF hit THEN node ELSE best)
    ELSE [node |-> node, best |-> best]

patricia_prefix(h, key, bitlen) ==
    LET r == prefix_loop(h, key, bitlen, Child(h, Root, 0), h[Root].bpos, NULL)
    IN  IF patricia_equkey(key, h[r.node].nbit, h[r.node].data, h[r.node].nbit)
        THEN r.node ELSE r.best

\* ---- insertion ------------------------------------------------------------
\* second walk of patricia_insert, depth-limited by the new branch position
RECURSIVE insert_walk(_, _, _, _, _, _, _)
insert_walk(h, key, bitlen, bpos, last, pdir, next) ==
    IF (h[next].bpos > h[last].bpos) /\ (h[next].bpos < bpos)
    THEN LET d == patricia_getbit(key, bitlen, h[next].bpos)
         IN  insert_walk(h, key, bitlen, bpos, next, d, Child(h, next, d))
    ELSE [last |-> last, pdir |-> pdir, next |-> next]

\* Result of patricia_insert: the heap, the returned node, *inserted, whether
\* the allocator was called, and whether assert(0 != bpos) held; when it did
\* not, the other fields are what a build without assertions goes on to make.
InsertResult(h, ret, inserted, alloc, ok) ==
    [heap |-> h, ret |-> ret, inserted |-> inserted, alloc |-> alloc, ok |-> ok]

\* mutant: the duplicate takes the payload of the call
insert_existing_overwrite(h, next, payload) ==
    InsertResult([h EXCEPT ![next].payload = payload], next, FALSE, FALSE, TRUE)
\* mutant: the node is allocated before the key is found in the tree, and the
\* allocation is dropped
insert_existing_leak(h, next, payload) == InsertResult(h, next, FALSE, TRUE, TRUE)
\* the key is in the tree: the existing node is returned
insert_existing(h, next, payload) == InsertResult(h, next, FALSE, FALSE, TRUE)

\* mutant: the parent's slot is taken for the new node before the allocation
\* is known to have failed
insert_nomem_linked(h, key, bitlen, bpos) ==
    LET w == insert_walk(h, key, bitlen, bpos, Root, 0, Child(h, Root, 0))
    IN  InsertResult(SetChild(h, w.last, w.pdir, Root), NULL, FALSE, TRUE, TRUE)
\* ptnode_create has returned NULL
insert_nomem(h, key, bitlen, bpos) == InsertResult(h, NULL, FALSE, TRUE, TRUE)

\* mutant: the new node links itself on the side its key does not take
patricia_insert_otherside(h, key, bitlen, payload, mem) ==
    LET next == descend(h, key, bitlen, Child(h, Root, 0), h[Root].bpos)
    IN  IF patricia_equkey(key, bitlen, h[next].data, h[next].nbit)
        THEN insert_existing(h, next, payload)
        ELSE LET bpos == patricia_bitdiff(key, bitlen, h[next].data, h[next].nbit)
             IN  IF bpos = 0
                 THEN InsertResult(h, NULL, FALSE, FALSE, FALSE)
                 ELSE IF mem = NULL
                 THEN insert_nomem(h, key, bitlen, bpos)
                 ELSE LET w    == insert_walk(h, key, bitlen, bpos, Root, 0, Child(h, Root, 0))
                          ndir == patricia_getbit(key, bitlen, bpos)
                          made == [ptnode_create(key, bitlen) EXCEPT
                                     !.bpos = bpos, !.payload = payload,
                                     !.child = IF ndir = 1 THEN <<mem, w.next>>
                                               ELSE <<w.next, mem>>]
                          h1   == [h EXCEPT ![mem] = made]
                      IN  InsertResult(SetChild(h1, w.last, w.pdir, mem), mem,
                                       TRUE, TRUE, TRUE)
\* patricia_insert.  mem is what fp_alloc returns when it is called: a free
\* node identity, or NULL.
patricia_insert(h, key, bitlen, payload, mem) ==
    LET next == descend(h, key, bitlen, Child(h, Root, 0), h[Root].bpos)
    IN  IF patricia_equkey(key, bitlen, h[next].data, h[next].nbit)
        THEN insert_existing(h, next, payload)
        ELSE LET bpos == patricia_bitdiff(key, bitlen, h[next].data, h[next].nbit)
             IN  IF mem = NULL
                 THEN [insert_nomem(h, key, bitlen, bpos) EXCEPT !.ok = (bpos # 0)]
                 ELSE LET w    == insert_walk(h, key, bitlen, bpos, Root, 0, Child(h, Root, 0))
                          ndir == patricia_getbit(key, bitlen, bpos)
                          made == [ptnode_create(key, bitlen) EXCEPT
                                     !.bpos = bpos, !.payload = payload,
                                     !.child = IF ndir = 1 THEN <<w.next, mem>>
                                               ELSE <<mem, w.next>>]
                          h1   == [h EXCEPT ![mem] = made]
                      IN  InsertResult(SetChild(h1, w.last, w.pdir, mem), mem,
                                       TRUE, TRUE, bpos # 0)

\* ---- deletion -------------------------------------------------------------
\* mutant: the walk does not register the node it leaves when it enters `node`
RECURSIVE pwalk_loop_nonpar(_, _, _, _, _, _, _, _)
pwalk_loop_nonpar(h, node, ndata, nnbit, npar, over, last, next) ==
    IF h[next].bpos > h[last].bpos
    THEN pwalk_loop_nonpar(h, node, ndata, nnbit, npar, last, next,
                           Child(h, next, patricia_getbit(ndata, nnbit, h[next].bpos)))
    ELSE [npar |-> npar, over |-> over, last |-> last, node |-> next]
RECURSIVE pwalk_loop(_, _, _, _, _, _, _, _)
pwalk_loop(h, node, ndata, nnbit, npar, over, last, next) ==
    IF h[next].bpos > h[last].bpos
    THEN pwalk_loop(h, node, ndata, nnbit,
                    IF node = next THEN last ELSE npar,
                    last, next,
                    Child(h, next, patricia_getbit(ndata, nnbit, h[next].bpos)))
    ELSE [npar |-> npar, over |-> over, last |-> last, node |-> next]

\* _pwalk for the node identity `node` whose key is (ndata, nnbit).  found is
\* the return value; asserts tells whether the three assertions held.
_pwalk(h, node, ndata, nnbit) ==
    IF (node = NULL) \/ (node = Root)
    THEN [found |-> FALSE, asserts |-> TRUE, npar |-> UNINIT, over |-> UNINIT,
          last |-> UNINIT, node |-> UNINIT]
    ELSE LET w == pwalk_loop(h, node, ndata, nnbit, UNINIT, Root, Root, Child(h, Root, 0))
         IN  [found   |-> (node = w.node),
              asserts |-> /\ _isParentOf(h, w.over, w.last)
                          /\ _isParentOf(h, w.last, w.node)
                          /\ node = w.node,
              npar |-> w.npar, over |-> w.over, last |-> w.last, node |-> w.node]

\* mutant: the node that takes the place of x takes x's key as well
_evict_copykey(h, walk) ==
    LET x  == walk.node
        p  == walk.last
        g  == walk.over
        z  == walk.npar
        h1 == SetChild(h, g, _childIdx(h, g, p), Child(h, p, _otherIdx(h, p, x)))
        h2 == IF x # p /\ z # UNINIT
              THEN LET ha == SetChild(h1, z, _childIdx(h1, z, x), p)
                       hb == SetChild(ha, p, 0, Child(ha, x, 0))
                       hc == SetChild(hb, p, 1, Child(hb, x, 1))
                   IN  [hc EXCEPT ![p].bpos = hc[x].bpos, ![p].nbit = hc[x].nbit,
                                  ![p].data = hc[x].data]
              ELSE h1
    IN  [heap    |-> [h2 EXCEPT ![x] = FreedNode],
         asserts |-> /\ _isParentOf(h, p, x)
                     /\ _isParentOf(h, g, p)
                     /\ (x # p => (z # UNINIT /\ _isParentOf(h1, z, x)))]

\* mutant: p takes the place of x but keeps its own branch position
_evict_nobpos(h, walk) ==
    LET x  == walk.node
        p  == walk.last
        g  == walk.over
        z  == walk.npar
        h1 == SetChild(h, g, _childIdx(h, g, p), Child(h, p, _otherIdx(h, p, x)))
        h2 == IF x # p /\ z # UNINIT
              THEN LET ha == SetChild(h1, z, _childIdx(h1, z, x), p)
                       hb == SetChild(ha, p, 0, Child(ha, x, 0))
                   IN  SetChild(hb, p, 1, Child(hb, x, 1))
              ELSE h1
    IN  [heap    |-> [h2 EXCEPT ![x] = FreedNode],
         asserts |-> /\ _isParentOf(h, p, x)
                     /\ _isParentOf(h, g, p)
                     /\ (x # p => (z # UNINIT /\ _isParentOf(h1, z, x)))]
\* mutant: p takes the payload of x along with its place
_evict_payload(h, walk) ==
    LET x  == walk.node
        p  == walk.last
        g  == walk.over
        z  == walk.npar
        h1 == SetChild(h, g, _childIdx(h, g, p), Child(h, p, _otherIdx(h, p, x)))
        h2 == IF x # p /\ z # UNINIT
              THEN LET ha == SetChild(h1, z, _childIdx(h1, z, x), p)
                       hb == SetChild(ha, p, 0, Child(ha, x, 0))
                       hc == SetChild(hb, p, 1, Child(hb, x, 1))
                   IN  [hc EXCEPT ![p].bpos = hc[x].bpos, ![p].payload = hc[x].payload]
              ELSE h1
    IN  [heap    |-> [h2 EXCEPT ![x] = FreedNode],
         asserts |-> /\ _isParentOf(h, p, x)
                     /\ _isParentOf(h, g, p)
                     /\ (x # p => (z # UNINIT /\ _isParentOf(h1, z, x)))]
\* _evict: the rewiring, then the purge of x.  asserts tells whether the
\* assertions held (an unassigned npar cannot pass the third).
_evict(h, walk) ==
    LET x  == walk.node
        p  == walk.last
        g  == walk.over
        z  == walk.npar
        h1 == SetChild(h, g, _childIdx(h, g, p), Child(h, p, _otherIdx(h, p, x)))
        h2 == IF x # p /\ z # UNINIT
              THEN LET ha == SetChild(h1, z, _childIdx(h1, z, x), p)
                       hb == SetChild(ha, p, 0, Child(ha, x, 0))
                       hc == SetChild(hb, p, 1, Child(hb, x, 1))
                   IN  [hc EXCEPT ![p].bpos = hc[x].bpos]
              ELSE h1
    IN  [heap    |-> [h2 EXCEPT ![x] = FreedNode],
         asserts |-> /\ _isParentOf(h, p, x)
                     /\ _isParentOf(h, g, p)
                     /\ (x # p => (z # UNINIT /\ _isParentOf(h1, z, x)))]

\* patricia_evict for a node identity with the key bytes read through it
patricia_evict(h, node, ndata, nnbit) ==
    LET nodes == _pwalk(h, node, ndata, nnbit)
    IN  IF ~nodes.asserts THEN [heap |-> h, ret |-> FALSE, ok |-> FALSE, freed |-> NULL]
        ELSE IF nodes.found
        THEN LET e == _evict(h, nodes)
             IN  [heap |-> e.heap, ret |-> TRUE, ok |-> e.asserts, freed |-> nodes.node]
        ELSE [heap |-> h, ret |-> FALSE, ok |-> TRUE, freed |-> NULL]

\* patricia_remove: pout is the value written through payload_out (NULL: none)
patricia_remove(h, key, bitlen) ==
    LET node  == patricia_lookup(h, key, bitlen)
        nodes == IF node = NULL THEN _pwalk(h, NULL, <<0>>, 0)
                 ELSE _pwalk(h, node, h[node].data, h[node].nbit)
    IN  IF ~nodes.asserts
        THEN [heap |-> h, ret |-> FALSE, ok |-> FALSE, freed |-> NULL, pout |-> NULL]
        ELSE IF nodes.found
        THEN LET e == _evict(h, nodes)
             IN  [heap |-> e.heap, ret |-> TRUE, ok |-> e.asserts, freed |-> nodes.node,
                  pout |-> h[nodes.node].payload]
        ELSE [heap |-> h, ret |-> FALSE, ok |-> TRUE, freed |-> NULL, pout |-> NULL]

\* ---- iteration ---------------------------------------------------------------
\* EPTIterMode; the mode field of the transition tables is two bits wide, so
\* the -1 of the head and tail rows is stored as 3
ePTMode_preOrder == 0
ePTMode_inOrder == 1
ePTMode_postOrder == 2
ModeNone == 3
Modes == {ePTMode_preOrder, ePTMode_inOrder, ePTMode_postOrder}

\* the length of PTMapIterT._m_pstk
PstkSize == 8

\* a read through a pointer to storage that ptnode_free has purged
TRAP == -5
IsNode(h, n) == n \in DOMAIN h /\ h[n].child[1] # BADPTR

\* bool used as an array index
B2I(b) == IF b THEN 1 ELSE 0

\* PTMapIterT after memset(iter, 0, sizeof(*iter))
IterZero ==
    [root |-> NULL, nodep |-> NULL, pstk |-> [i \in 0..(PstkSize - 1) |-> NULL],
     stkLen |-> 0, stkTop |-> 0, state |-> "head", mode |-> ePTMode_preOrder,
     dir |-> FALSE]

IterTransT(odir, idir, mode) == [odir |-> odir, idir |-> idir, mode |-> mode]

\* mutant: the pre-order and the in-order rows yield for each other's mode
fwdTable_preLate ==
    [head |-> IterTransT("root", "tail", ModeNone),
     down |-> IterTransT("dnC1", "upC1", ePTMode_inOrder),
     upC1 |-> IterTransT("dnC2", "upC2", ePTMode_preOrder),
     upC2 |-> IterTransT("up", "tail", ePTMode_postOrder),
     tail |-> IterTransT("null", "tail", ModeNone)]

\* mutant: post-order yields a node before its second subtree is entered
fwdTable_postEarly ==
    [head |-> IterTransT("root", "tail", ModeNone),
     down |-> IterTransT("dnC1", "upC1", ePTMode_preOrder),
     upC1 |-> IterTransT("dnC2", "upC2", ePTMode_postOrder),
     upC2 |-> IterTransT("up", "tail", ePTMode_inOrder),
     tail |-> IterTransT("null", "tail", ModeNone)]

\* mutant: a forward step at the end position leaves the iterator at the
\* start position
fwdTable_tailHead ==
    [head |-> IterTransT("root", "tail", ModeNone),
     down |-> IterTransT("dnC1", "upC1", ePTMode_preOrder),
     upC1 |-> IterTransT("dnC2", "upC2", ePTMode_inOrder),
     upC2 |-> IterTransT("up", "tail", ePTMode_postOrder),
     tail |-> IterTransT("null", "head", ModeNone)]

\* transition table for stepping forward
fwdTable ==
    [head |-> IterTransT("root", "tail", ModeNone),
     down |-> IterTransT("dnC1", "upC1", ePTMode_preOrder),
     upC1 |-> IterTransT("dnC2", "upC2", ePTMode_inOrder),
     upC2 |-> IterTransT("up", "tail", ePTMode_postOrder),
     tail |-> IterTransT("null", "tail", ModeNone)]

\* mutant: the backward rows of pre-order and post-order yield for each other's mode
revTable_modes ==
    [head |-> IterTransT("null", "head", ModeNone),
     down |-> IterTransT("dnC2", "upC2", ePTMode_preOrder),
     upC1 |-> IterTransT("up", "head", ePTMode_postOrder),
     upC2 |-> IterTransT("dnC1", "upC1", ePTMode_inOrder),
     tail |-> IterTransT("root", "head", ModeNone)]

\* transition table for stepping backward
revTable ==
    [head |-> IterTransT("null", "head", ModeNone),
     down |-> IterTransT("dnC2", "upC2", ePTMode_postOrder),
     upC1 |-> IterTransT("up", "head", ePTMode_preOrder),
     upC2 |-> IterTransT("dnC1", "upC1", ePTMode_inOrder),
     tail |-> IterTransT("root", "head", ModeNone)]

\* mutant: the child is read from the other slot
iter_child_other(h, node, dir) ==
    IF node = NULL THEN NULL
    ELSE IF ~IsNode(h, node) THEN TRAP
    ELSE LET next == Child(h, node, 1 - dir)
         IN  IF ~IsNode(h, next) THEN TRAP
             ELSE IF h[node].bpos < h[next].bpos THEN next ELSE NULL
\* iter_child: the child in slot dir if that slot holds a downlink, else NULL
iter_child(h, node, dir) ==
    IF node = NULL THEN NULL
    ELSE IF ~IsNode(h, node) THEN TRAP
    ELSE LET next == Child(h, node, dir)
         IN  IF ~IsNode(h, next) THEN TRAP
             ELSE IF h[node].bpos < h[next].bpos THEN next ELSE NULL

\* mutant: a push into a full FIFO overwrites the newest entry
iter_parentPush_newest(it, node) ==
    IF it.stkLen < PstkSize
    THEN [it EXCEPT !.pstk[it.stkTop] = node,
                    !.stkTop = (it.stkTop + 1) % PstkSize,
                    !.stkLen = it.stkLen + 1]
    ELSE [it EXCEPT !.pstk[(it.stkTop - 1) % PstkSize] = node]

iter_parentPush(it, node) ==
    [it EXCEPT !.pstk[it.stkTop] = node,
               !.stkTop = (it.stkTop + 1) % PstkSize,
               !.stkLen = IF it.stkLen < PstkSize THEN it.stkLen + 1 ELSE it.stkLen]

\* Result of iter_parentPop: the iterator, the returned node, whether the
\* recovery walk was taken, and whether purged storage was read.
PopResult(it, ret, walked, trap) ==
    [it |-> it, ret |-> ret, walked |-> walked, trap |-> trap]

\* the first loop of iter_parentPop: entries are popped until one is the
\* downlink parent of node; ret = NULL: the stack ran empty
RECURSIVE pop_stack(_, _, _)
pop_stack(h, it, node) ==
    IF it.stkLen = 0 THEN PopResult(it, NULL, FALSE, FALSE)
    ELSE LET top  == (it.stkTop - 1) % PstkSize
             it1  == [it EXCEPT !.stkLen = @ - 1, !.stkTop = top]
             next == it.pstk[top]
         IN  IF ~IsNode(h, next) THEN PopResult(it1, NULL, FALSE, TRUE)
             ELSE IF _isParentOf(h, next, node)
             THEN IF ~IsNode(h, node) THEN PopResult(it1, NULL, FALSE, TRUE)
                  ELSE IF h[next].bpos < h[node].bpos
                  THEN PopResult(it1, next, FALSE, FALSE)
                  ELSE pop_stack(h, it1, node)
             ELSE pop_stack(h, it1, node)

\* the recovery walk of iter_parentPop from the iteration root towards node
RECURSIVE pop_walk(_, _, _, _, _)
pop_walk(h, it, node, last, next) ==
    IF ~IsNode(h, next) THEN [it |-> it, last |-> last, next |-> next, trap |-> TRUE]
    ELSE IF (next # node) /\ (h[next].bpos > h[last].bpos)
    THEN pop_walk(h, iter_parentPush(it, last), node, next,
                  Child(h, next, patricia_getbit(h[node].data, h[node].nbit, h[next].bpos)))
    ELSE [it |-> it, last |-> last, next |-> next, trap |-> FALSE]

\* mutant: no recovery walk, an empty FIFO ends the ascent
iter_parentPop_nowalk(h, it, node) ==
    LET s == pop_stack(h, it, node)
    IN  IF s.trap \/ s.ret # NULL THEN s
        ELSE PopResult(s.it, NULL, FALSE, FALSE)

iter_parentPop(h, it, node) ==
    LET s == pop_stack(h, it, node)
    IN  IF s.trap \/ s.ret # NULL THEN s
        ELSE IF node = it.root THEN PopResult(s.it, NULL, FALSE, FALSE)
        ELSE IF ~IsNode(h, node) \/ ~IsNode(h, it.root)
        THEN PopResult(s.it, NULL, TRUE, TRUE)
        ELSE LET first == Child(h, it.root,
                                patricia_getbit(h[node].data, h[node].nbit, h[it.root].bpos))
                 w     == pop_walk(h, s.it, node, it.root, first)
             IN  IF w.trap THEN PopResult(w.it, NULL, TRUE, TRUE)
                 ELSE IF (w.next # node) \/ (h[w.next].bpos <= h[w.last].bpos)
                 THEN PopResult([w.it EXCEPT !.stkLen = 0], NULL, TRUE, FALSE)
                 ELSE PopResult(w.it, w.last, TRUE, FALSE)

\* Result of iter_step: the iterator, the returned node, whether purged storage
\* was read, and the calls of iter_parentPop the step made (the cursor, the
\* node returned, whether the recovery walk was taken).
StepResult(it, ret, trap, pops) == [it |-> it, ret |-> ret, trap |-> trap, pops |-> pops]

\* the do-while loop of iter_step
RECURSIVE step_loop(_, _, _, _, _, _)
step_loop(h, it, ttable, idir, next, pops) ==
    LET last  == next
        t     == ttable[idir]
        yield == (t.mode = it.mode)
        again(it2, idir2, next2, pops2) ==
            IF ~yield /\ (t.odir # "null")
            THEN step_loop(h, it2, ttable, idir2, next2, pops2)
            ELSE StepResult([it2 EXCEPT !.nodep = next2, !.state = idir2], last, FALSE, pops2)
    IN  CASE t.odir = "root" ->
                 IF it.root # NULL
                 THEN again([it EXCEPT !.stkLen = 0, !.stkTop = 0], "down", it.root, pops)
                 ELSE again(it, t.idir, NULL, pops)
          [] t.odir \in {"dnC1", "dnC2"} ->
                 LET c == iter_child(h, last, B2I((t.odir = "dnC2") = it.dir))
                 IN  IF c = TRAP THEN StepResult(it, last, TRUE, pops)
                     ELSE IF c # NULL
                     THEN again(iter_parentPush(it, last), "down", c, pops)
                     ELSE again(it, t.idir, last, pops)
          [] t.odir = "up" ->
                 LET r  == iter_parentPop(h, it, last)
                     ps == Append(pops, [node |-> last, ret |-> r.ret, walked |-> r.walked])
                 IN  IF r.trap THEN StepResult(r.it, last, TRUE, ps)
                     ELSE IF r.ret # NULL
                     THEN again(r.it,
                                IF last = Child(h, r.ret, B2I(it.dir)) THEN "upC2" ELSE "upC1",
                                r.ret, ps)
                     ELSE again(r.it, t.idir, NULL, ps)
          [] t.odir = "null" -> again(it, t.idir, NULL, pops)

iter_step(h, it, ttable) == step_loop(h, it, ttable, it.state, it.nodep, <<>>)

\* mutant: the root argument is ignored, the iterator is set on the whole tree
ptiter_init_whole(h, root, dir, mode) ==
    [IterZero EXCEPT !.root = iter_child(h, Root, 0),
                     !.dir = dir, !.mode = mode, !.state = "head"]

ptiter_init(h, root, dir, mode) ==
    [IterZero EXCEPT !.root = IF root # NULL THEN root ELSE iter_child(h, Root, 0),
                     !.dir = dir, !.mode = mode, !.state = "head"]

ptiter_next(h, it) == iter_step(h, it, fwdTable)
ptiter_prev(h, it) == iter_step(h, it, revTable)
ptiter_reset(it) == [it EXCEPT !.state = "head"]

\* the textbook recursive traversal of the downlink tree below n (NULL: none),
\* the slot B2I(~dir) first: child[0] first when dir is true
RECURSIVE RefTraversal(_, _, _, _)
RefTraversal(h, n, mode, dir) ==
    IF n = NULL THEN <<>>
    ELSE LET c1 == RefTraversal(h, iter_child(h, n, B2I(~dir)), mode, dir)
             c2 == RefTraversal(h, iter_child(h, n, B2I(dir)), mode, dir)
         IN  IF mode = ePTMode_preOrder THEN <<n>> \o c1 \o c2
             ELSE IF mode = ePTMode_inOrder THEN c1 \o <<n>> \o c2
             ELSE c1 \o c2 \o <<n>>

\* ---- teardown ----------------------------------------------------------------
\* the steps a loop of patricia_fini_ex may take before the model gives it up
\* as not terminating
FiniFuel(h) == 2 * Cardinality(DOMAIN h) + 2

\* Result of the loops of patricia_fini_ex: the heap, the head of the dead-node
\* list or the node reached, whether purged storage or NULL was read, whether
\* the loop came to its end, and the calls made (deleter, free hook) in order.
FiniResult(h, at, trap, term, log) ==
    [heap |-> h, at |-> at, trap |-> trap, term |-> term, log |-> log]

\* the end of the right spine below scan: while (child[1]->bpos > scan->bpos)
RECURSIVE fini_spine(_, _)
fini_spine(h, scan) ==
    IF ~IsNode(h, Child(h, scan, 1)) THEN TRAP
    ELSE IF h[Child(h, scan, 1)].bpos > h[scan].bpos THEN fini_spine(h, Child(h, scan, 1))
    ELSE scan

\* mutant: the right child is not grafted onto the right spine of the left subtree
RECURSIVE fini_funnel_nograft(_, _, _, _)
fini_funnel_nograft(h, hold, list, fuel) ==
    IF hold = Root THEN FiniResult(h, list, FALSE, TRUE, <<>>)
    ELSE IF fuel = 0 THEN FiniResult(h, list, FALSE, FALSE, <<>>)
    ELSE IF ~IsNode(h, hold) THEN FiniResult(h, list, TRUE, TRUE, <<>>)
    ELSE LET next == Child(h, hold, 0)
             tail == Child(h, hold, 1)
         IN  IF ~IsNode(h, next) THEN FiniResult(h, list, TRUE, TRUE, <<>>)
             ELSE LET left == h[next].bpos > h[hold].bpos
                      h2   == [h EXCEPT ![hold].bpos = 0, ![hold].child[1] = list]
                  IN  fini_funnel_nograft(h2, IF left THEN next ELSE tail, hold, fuel - 1)
\* the funnel: while (t->_m_root != hold)
RECURSIVE fini_funnel(_, _, _, _)
fini_funnel(h, hold, list, fuel) ==
    IF hold = Root THEN FiniResult(h, list, FALSE, TRUE, <<>>)
    ELSE IF fuel = 0 THEN FiniResult(h, list, FALSE, FALSE, <<>>)
    ELSE IF ~IsNode(h, hold) THEN FiniResult(h, list, TRUE, TRUE, <<>>)
    ELSE LET next == Child(h, hold, 0)
             tail == Child(h, hold, 1)
         IN  IF ~IsNode(h, next) THEN FiniResult(h, list, TRUE, TRUE, <<>>)
             ELSE LET left == h[next].bpos > h[hold].bpos
                      scan == IF left THEN fini_spine(h, next) ELSE hold
                      h1   == IF left /\ scan # TRAP THEN SetChild(h, scan, 1, tail) ELSE h
                      h2   == [h1 EXCEPT ![hold].bpos = 0, ![hold].child[1] = list]
                  IN  IF scan = TRAP THEN FiniResult(h, list, TRUE, TRUE, <<>>)
                      ELSE fini_funnel(h2, IF left THEN next ELSE tail, hold, fuel - 1)

\* PTMemFuncT: fp_alloc is mandatory; fp_free and fp_kill tell whether the
\* hook is there (TRUE) or NULL (FALSE)
PTMemFuncT(free, kill) == [fp_free |-> free, fp_kill |-> kill]
\* the default policy of patricia_init_ex: alloc_wrap, free_wrap, NULL
mf_memfunc == PTMemFuncT(TRUE, FALSE)

\* one call of a hook or of the payload deleter
HookCall(call, node, payload, uarg) ==
    [call |-> call, node |-> node, payload |-> payload, uarg |-> uarg]

\* ptnode_free: the hook calls it makes; the node is purged either way
ptnode_free(mf, node) ==
    IF node # NULL /\ mf.fp_free THEN <<HookCall("fp_free", node, NULL, NULL)>> ELSE <<>>

\* the dead-node list is walked: deleter, purge, ptnode_free
RECURSIVE fini_free(_, _, _, _, _, _)
fini_free(h, mf, list, uarg, fuel, log) ==
    IF list = NULL THEN FiniResult(h, NULL, FALSE, TRUE, log)
    ELSE IF fuel = 0 THEN FiniResult(h, list, FALSE, FALSE, log)
    ELSE IF ~IsNode(h, list) THEN FiniResult(h, list, TRUE, TRUE, log)
    ELSE fini_free([h EXCEPT ![list] = FreedNode], mf, Child(h, list, 0), uarg, fuel - 1,
                   log \o <<HookCall("deleter", list, h[list].payload, uarg)>>
                       \o ptnode_free(mf, list))

\* mutant: the arena killer is called before the dead-node list is walked
patricia_fini_ex_killfirst(h, mf, uarg) ==
    LET hold == Child(h, Root, 0)
        h1   == SetChild(SetChild(h, Root, 0, Root), Root, 1, Root)
        scan == fini_spine(h1, hold)
        kill == IF mf.fp_kill THEN <<HookCall("fp_kill", NULL, NULL, NULL)>> ELSE <<>>
    IN  IF scan = TRAP THEN FiniResult(h1, NULL, TRUE, TRUE, <<>>)
        ELSE LET f == fini_funnel(SetChild(h1, scan, 1, Root), hold, NULL, FiniFuel(h))
             IN  IF f.trap \/ ~f.term THEN f
                 ELSE fini_free(f.heap, mf, f.at, uarg, FiniFuel(h), kill)
\* patricia_fini_ex for a tree with the policy mf; the arena killer, if there
\* is one, is called when the list has been walked
patricia_fini_ex(h, mf, uarg) ==
    LET hold == Child(h, Root, 0)
        h1   == SetChild(SetChild(h, Root, 0, Root), Root, 1, Root)
        scan == fini_spine(h1, hold)
        kill == IF mf.fp_kill THEN <<HookCall("fp_kill", NULL, NULL, NULL)>> ELSE <<>>
    IN  IF scan = TRAP THEN FiniResult(h1, NULL, TRUE, TRUE, <<>>)
        ELSE LET f == fini_funnel(SetChild(h1, scan, 1, Root), hold, NULL, FiniFuel(h))
             IN  IF f.trap \/ ~f.term THEN f
                 ELSE LET r == fini_free(f.heap, mf, f.at, uarg, FiniFuel(h), <<>>)
                      IN  IF r.trap \/ ~r.term THEN r
                          ELSE [r EXCEPT !.log = @ \o kill]

\* patricia_fini: no payload deleter work, no user context
patricia_fini(h, mf) == patricia_fini_ex(h, mf, NULL)

\* ---- keys the callers pass --------------------------------------------------
\* A caller's buffer of one byte: the counted bits are arbitrary, the unused
\* low-order bits are all 0 or all 1.
KeyBytes(n) ==
    {b \in 0..UCHAR_MAX : LET t == b % Pow2(CHAR_BIT - n)
                          IN  t = 0 \/ t = Pow2(CHAR_BIT - n) - 1}
InputKeys == UNION {{[buf |-> <<b>>, len |-> n] : b \in KeyBytes(n)} : n \in 0..MaxBit}

\* the keys given to insert: the unused bits of the buffer are 0
InsertKeys == {k \in InputKeys : k.buf[1] % Pow2(CHAR_BIT - k.len) = 0}

\* the bit string a buffer and a length denote; the empty string is <<>>
KeyBits(buf, len) == [i \in 1..len |-> ByteBit(At(buf, (i - 1) \div CHAR_BIT), (i - 1) % CHAR_BIT)]
BitsOf(k) == KeyBits(k.buf, k.len)
NodeBits(h, n) == KeyBits(h[n].data, h[n].nbit)

\* the payload the caller attaches to a key it stores (the tests use the index
\* of the key in their word list), and the payload of a repeated insert (the
\* 0x77 of the iterator tests)
PayloadOf(k) == Pow2(k.len) + (k.buf[1] \div Pow2(CHAR_BIT - k.len))
OtherPayload == 119
Payloads(k) == {PayloadOf(k), OtherPayload}

\* a node of another tree, and the keys such a node holds
ForeignId == MaxNodes + 1
ForeignKeys == {k \in InsertKeys : k.len = MaxBit}

\* ---- the bump pool ------------------------------------------------------------
\* vmbumppool.c: an arena is a list of blocks, the newest first, and its
\* accounting.  A block is its size and its _m_used offset; addresses are
\* offsets into a block.  All sizes of the model stay far below the width of
\* size_t, so no sum or product wraps.
s_pagesize == 4096
SizeofBlk == 24
MaxCore == 131072

\* the outcomes of the system calls of one vmBump_alloc: the reservation of a
\* block, the commit of its first page, the commit of the pages of the request;
\* all succeed, or one of them fails
SysOk == [reserve |-> TRUE, header |-> TRUE, pages |-> TRUE]
SysOutcomes ==
    {SysOk, [SysOk EXCEPT !.reserve = FALSE], [SysOk EXCEPT !.header = FALSE],
     [SysOk EXCEPT !.pages = FALSE]}

topalign(base, asize) == (base + (asize - 1)) - ((base + (asize - 1)) % asize)

VmBumpPoolBlkT(size, used) == [size |-> size, used |-> used]
VmBumpPoolT(head, blks, total, limit) ==
    [head |-> head, blks |-> blks, total |-> total, limit |-> limit]

\* memset(arena, 0, sizeof(*arena))
ArenaZero == VmBumpPoolT(<<>>, 0, 0, 0)

vmBump_init(blklen, blkcnt) ==
    IF (blklen = 0) \/ (blkcnt = 0) THEN [ok |-> FALSE, arena |-> ArenaZero]
    ELSE IF blklen % s_pagesize # 0 THEN [ok |-> FALSE, arena |-> ArenaZero]
    ELSE LET len == topalign(blklen, s_pagesize)
         IN  [ok |-> TRUE, arena |-> VmBumpPoolT(<<>>, len, 0, len * blkcnt)]

vmBump_fini(arena) == [arena EXCEPT !.head = <<>>, !.total = 0]

\* mpool_morecore: retv is "ok" or the errno
mpool_morecore(arena, size, align, sys) ==
    IF size > MaxCore THEN [retv |-> "ERANGE", arena |-> arena]
    ELSE LET msize == topalign(SizeofBlk, align) + size
             mslag == IF arena.head # <<>>
                      THEN topalign(arena.head[1].used, s_pagesize) - arena.head[1].used
                      ELSE 0
         IN  IF (arena.limit <= arena.total) \/ ((arena.limit - arena.total) < (msize + mslag))
             THEN [retv |-> "ENOMEM", arena |-> arena]
             ELSE LET paged == topalign(msize, s_pagesize)
                      bsize == IF paged < arena.blks THEN arena.blks ELSE paged
                  IN  IF ~sys.reserve \/ ~sys.header THEN [retv |-> "ENOMEM", arena |-> arena]
                      ELSE [retv  |-> "ok",
                            arena |-> [arena EXCEPT
                                         !.head = <<VmBumpPoolBlkT(bsize, SizeofBlk)>> \o @,
                                         !.total = @ + SizeofBlk + mslag]]

\* Result of vmBump_alloc: ok tells a pointer was returned, off is its offset
\* in the newest block, retv the errno of a failed call
AllocResult(arena, ok, off, retv) == [arena |-> arena, ok |-> ok, off |-> off, retv |-> retv]

\* vmBump_alloc from the label `again`
RECURSIVE alloc_again(_, _, _, _)
alloc_again(arena, bytes, align, sys) ==
    LET pblock == arena.head[1]
        cplo   == topalign(pblock.used, s_pagesize)
        base   == topalign(pblock.used, align)
        mend   == base + bytes
        cphi   == topalign(mend, s_pagesize)
        need   == mend - pblock.used
        have   == pblock.size - pblock.used
    IN  IF need > have
        THEN LET m == mpool_morecore(arena, bytes, align, sys)
             IN  IF m.retv = "ok" THEN alloc_again(m.arena, bytes, align, sys)
                 ELSE AllocResult(m.arena, FALSE, 0, m.retv)
        ELSE IF (cphi # cplo) /\ ~sys.pages
        THEN AllocResult(arena, FALSE, 0, "ENOMEM")
        ELSE AllocResult([arena EXCEPT !.total = @ + (mend - pblock.used),
                                       !.head[1].used = mend],
                         TRUE, base, "ok")

vmBump_alloc(arena, bytes, align, sys) ==
    IF arena.head = <<>>
    THEN LET m == mpool_morecore(arena, bytes, align, sys)
         IN  IF m.retv # "ok" THEN AllocResult(m.arena, FALSE, 0, m.retv)
             ELSE alloc_again(m.arena, bytes, align, sys)
    ELSE alloc_again(arena, bytes, align, sys)

\* ---- state ------------------------------------------------------------------
VARIABLES
    heap,      \* node storage: the root sentinel and the allocator's nodes
    live,      \* node identities obtained from fp_alloc and not yet passed to fp_free
    stored,    \* the finite map the caller has built: bit string -> payload
    last,      \* the last call: its name and what it returned
    aborted,   \* an assert() of the library has failed
    iter,      \* the caller's PTMapIterT
    run,       \* what the caller has seen of the iteration or teardown under way
    mfunc,     \* the memory policy the tree was initialised with
    arena      \* the caller's VmBumpPoolT

vars == <<heap, live, stored, last, aborted, iter, run, mfunc, arena>>

\* phase: "idle", or where the caller's loop stands: "fwd" (calling ptiter_next),
\* "end" (ptiter_next has returned NULL), "bwd" (calling ptiter_prev), "done"
\* (ptiter_prev has returned NULL), "fini" (patricia_fini_ex has returned);
\* arg: the root given to ptiter_init; ref: the textbook traversal of the tree
\* as it was at ptiter_init; out, back: the nodes ptiter_next and ptiter_prev
\* have returned; cur: the node the last call returned; gone: the nodes
\* evicted since ptiter_init; trap: purged storage or NULL was read; term: the
\* loops of the call ended; pops: the iter_parentPop calls of the last step;
\* log: the deleter and free hook calls of the teardown; prev: the call before
\* the last and what it returned; want: what a cursor over ref returns for the
\* last call; twin, tret: an iterator initialised afresh at the last
\* ptiter_reset and given the same calls, and what its last call returned
RunIdle ==
    [phase |-> "idle", arg |-> NULL, ref |-> <<>>, out |-> <<>>, back |-> <<>>,
     cur |-> NULL, gone |-> {}, trap |-> FALSE, term |-> TRUE, pops |-> <<>>,
     log |-> <<>>, prev |-> <<>>, want |-> NULL, twin |-> NULL, tret |-> NULL]

\* op: the function called; ret: its return value; ins: *inserted;
\* pout: the value written through payload_out (NULL: nothing written);
\* undo: a remove that took out the node the call before had inserted
Call(op, ret, ins, pout, undo) ==
    [op |-> op, ret |-> ret, ins |-> ins, pout |-> pout, undo |-> undo]

Min(S) == CHOOSE x \in S : \A y \in S : x <= y

\* what fp_alloc returns: NULL, or storage that is not in use
fp_alloc(ok) == IF ok /\ (NodeIds \ live) # {} THEN Min(NodeIds \ live) ELSE NULL

Init ==
    /\ heap = patricia_init
    /\ live = {}
    /\ stored = <<>>
    /\ last = Call("init", NULL, FALSE, NULL, FALSE)
    /\ aborted = FALSE
    /\ iter = IterZero
    /\ run = RunIdle
    /\ mfunc = mf_memfunc
    /\ arena = ArenaZero

MapPut(m, k, v) == [x \in DOMAIN m \cup {k} |-> IF x = k THEN v ELSE m[x]]
MapDel(m, k) == [x \in DOMAIN m \ {k} |-> m[x]]

\* the caller stores a key with its own payload; a repeated insert may carry another
Insert(k, payload, ok) ==
    /\ UNCHANGED <<mfunc, arena>>
    /\ ~aborted
    /\ run' = RunIdle /\ UNCHANGED iter
    /\ payload = PayloadOf(k) \/ BitsOf(k) \in DOMAIN stored \/ k.len = 0
    /\ \E mem \in {fp_alloc(ok)} : \E r \in {patricia_insert(heap, k.buf, k.len, payload, mem)} :
           IF ~r.ok
           THEN /\ aborted' = TRUE
                /\ last' = Call("insert", NULL, FALSE, NULL, FALSE)
                /\ UNCHANGED <<heap, live, stored>>
           ELSE /\ heap' = r.heap
                /\ live' = IF r.alloc /\ mem # NULL THEN live \cup {mem} ELSE live
                /\ stored' = IF k.len > 0 /\ BitsOf(k) \notin DOMAIN stored /\ mem # NULL
                              THEN MapPut(stored, BitsOf(k), payload) ELSE stored
                /\ last' = Call("insert", r.ret, r.inserted, NULL, FALSE)
                /\ UNCHANGED aborted

Remove(k, wantOut) ==
    /\ UNCHANGED <<mfunc, arena>>
    /\ ~aborted
    /\ run' = RunIdle /\ UNCHANGED iter
    /\ \E r \in {patricia_remove(heap, k.buf, k.len)} :
           IF ~r.ok
           THEN /\ aborted' = TRUE
                /\ last' = Call("remove", FALSE, FALSE, NULL, FALSE)
                /\ UNCHANGED <<heap, live, stored>>
           ELSE /\ heap' = r.heap
                /\ live' = live \ {r.freed}
                /\ stored' = MapDel(stored, BitsOf(k))
                /\ last' = Call("remove", r.ret, FALSE, IF wantOut THEN r.pout ELSE NULL,
                                 r.ret /\ last.op = "insert" /\ last.ins /\ last.ret = r.freed)
                /\ UNCHANGED aborted

\* evict of a node the caller got from this tree and that is still in it
Evict(n) ==
    /\ UNCHANGED <<mfunc, arena>>
    /\ ~aborted
    /\ run' = RunIdle /\ UNCHANGED iter
    /\ n \in live
    /\ \E r \in {patricia_evict(heap, n, heap[n].data, heap[n].nbit)} :
           IF ~r.ok
           THEN /\ aborted' = TRUE
                /\ last' = Call("evict", FALSE, FALSE, NULL, FALSE)
                /\ UNCHANGED <<heap, live, stored>>
           ELSE /\ heap' = r.heap
                /\ live' = live \ {r.freed}
                /\ stored' = MapDel(stored, NodeBits(heap, n))
                /\ last' = Call("evict", r.ret, FALSE, NULL, FALSE)
                /\ UNCHANGED aborted

\* evict of NULL or of the root sentinel
EvictInvalid(n) ==
    /\ UNCHANGED <<mfunc, arena>>
    /\ ~aborted
    /\ run' = RunIdle /\ UNCHANGED iter
    /\ n \in {NULL, Root}
    /\ \E r \in {patricia_evict(heap, n, <<0>>, 0)} :
           /\ heap' = r.heap
           /\ last' = Call("evict_other", r.ret, FALSE, NULL, FALSE)
           /\ UNCHANGED <<live, stored, aborted>>

\* the node identities that are not in this tree: a node of another tree, and
\* storage that held a node evicted before
OtherIds == {ForeignId} \cup (IF NodeIds \ live = {} THEN {} ELSE {Min(NodeIds \ live)})

\* evict of a node that is not in this tree; k is the key its storage holds.
\* ndebug: the build compiled the assertions out.
EvictOther(n, k, ndebug) ==
    /\ UNCHANGED <<mfunc, arena>>
    /\ ~aborted
    /\ run' = RunIdle /\ UNCHANGED iter
    /\ n \in OtherIds
    /\ \E r \in {patricia_evict(heap, n, k.buf, k.len)} :
           IF ~r.ok /\ ~ndebug
           THEN /\ aborted' = TRUE
                /\ last' = Call("evict_other", FALSE, FALSE, NULL, FALSE)
                /\ UNCHANGED <<heap, live, stored>>
           ELSE /\ heap' = r.heap
                /\ live' = live \ {r.freed}
                /\ last' = Call("evict_other", r.ret, FALSE, NULL, FALSE)
                /\ UNCHANGED <<stored, aborted>>

Lookup(k) ==
    /\ UNCHANGED <<mfunc, arena>>
    /\ ~aborted
    /\ run' = RunIdle /\ UNCHANGED iter
    /\ last' = Call("lookup", patricia_lookup(heap, k.buf, k.len), FALSE, NULL, FALSE)
    /\ UNCHANGED <<heap, live, stored, aborted>>

Prefix(k) ==
    /\ UNCHANGED <<mfunc, arena>>
    /\ ~aborted
    /\ run' = RunIdle /\ UNCHANGED iter
    /\ last' = Call("prefix", patricia_prefix(heap, k.buf, k.len), FALSE, NULL, FALSE)
    /\ UNCHANGED <<heap, live, stored, aborted>>

\* the user context the caller hands to patricia_fini_ex for its deleter
UserArg == 1
UArgs == {NULL, UserArg}

\* the nodes the free hook was called with
FreedBy(log) == {log[i].node : i \in {j \in DOMAIN log : log[j].call = "fp_free"}}

\* patricia_fini_ex with a payload deleter that records its calls
Fini(uarg) ==
    /\ UNCHANGED <<mfunc, arena>>
    /\ ~aborted
    /\ UNCHANGED <<aborted, iter>>
    /\ \E r \in {patricia_fini_ex(heap, mfunc, uarg)} :
           /\ heap' = r.heap
           /\ live' = live \ FreedBy(r.log)
           /\ stored' = <<>>
           /\ last' = Call("fini", NULL, FALSE, NULL, FALSE)
           /\ run' = [RunIdle EXCEPT !.phase = "fini", !.arg = uarg, !.log = r.log,
                                     !.trap = r.trap, !.term = r.term]

Next ==
    \/ \E k \in InsertKeys, ok \in BOOLEAN : \E p \in Payloads(k) : Insert(k, p, ok)
    \/ \E k \in InputKeys, w \in BOOLEAN : Remove(k, w)
    \/ \E n \in NodeIds : Evict(n)
    \/ \E n \in {NULL, Root} : EvictInvalid(n)
    \/ \E n \in {ForeignId} \cup NodeIds, k \in ForeignKeys, nd \in BOOLEAN : EvictOther(n, k, nd)
    \/ \E k \in InputKeys : Lookup(k)
    \/ \E k \in InputKeys : Prefix(k)
    \/ \E uarg \in UArgs : Fini(uarg)

Spec == Init /\ [][Next]_vars

\* ---- the tree as a graph ------------------------------------------------------
\* slot i of node n holds a downlink
IsDownlink(h, n, i) == Child(h, n, i) \in DOMAIN h /\ h[Child(h, n, i)].bpos > h[n].bpos

\* the nodes reached from n over downlinks, n included
RECURSIVE Subtree(_, _)
Subtree(h, n) ==
    {n} \cup UNION {IF IsDownlink(h, n, i) THEN Subtree(h, Child(h, n, i)) ELSE {} : i \in 0..1}

\* the nodes of the tree, without the root sentinel
TreeNodes(h) == Subtree(h, Root) \ {Root}

\* the child slots of the tree that hold x
Slots(h) == (TreeNodes(h) \cup {Root}) \X {0, 1}
Refs(h, x) == {s \in Slots(h) : Child(h, s[1], s[2]) = x}

\* ---- iterating callers --------------------------------------------------------
\* A caller that builds a tree, sets an iterator on it, steps it forward to the
\* end and then backward to the start; in a post-order pass it may evict the
\* node ptiter_next has just returned.

\* the node ptiter_init takes as the iteration root
IterRootOf(h, root) == IF root # NULL THEN root ELSE iter_child(h, Root, 0)

IterInsert(k) ==
    /\ UNCHANGED <<mfunc, arena>>
    /\ ~aborted /\ run.phase = "idle"
    /\ \E mem \in {fp_alloc(TRUE)} : \E r \in {patricia_insert(heap, k.buf, k.len, PayloadOf(k), mem)} :
           /\ r.ok /\ r.inserted
           /\ heap' = r.heap
           /\ live' = live \cup {r.ret}
           /\ stored' = MapPut(stored, BitsOf(k), PayloadOf(k))
    /\ last' = Call("build", NULL, FALSE, NULL, FALSE)
    /\ UNCHANGED <<aborted, iter, run>>

IterRemove(k) ==
    /\ UNCHANGED <<mfunc, arena>>
    /\ ~aborted /\ run.phase = "idle"
    /\ \E r \in {patricia_remove(heap, k.buf, k.len)} :
           /\ r.ok /\ r.ret
           /\ heap' = r.heap
           /\ live' = live \ {r.freed}
           /\ stored' = MapDel(stored, BitsOf(k))
    /\ last' = Call("build", NULL, FALSE, NULL, FALSE)
    /\ UNCHANGED <<aborted, iter, run>>

IterInit(root, dir, mode) ==
    /\ UNCHANGED <<mfunc, arena>>
    /\ ~aborted /\ run.phase = "idle"
    /\ root \in {NULL} \cup TreeNodes(heap)
    /\ iter' = ptiter_init(heap, root, dir, mode)
    /\ run' = [RunIdle EXCEPT !.phase = "fwd", !.arg = root,
                              !.ref = RefTraversal(heap, IterRootOf(heap, root), mode, dir)]
    /\ last' = Call("ptiter_init", NULL, FALSE, NULL, FALSE)
    /\ UNCHANGED <<heap, live, stored, aborted>>

\* ptiter_next; the pass is over when it returns NULL
IterNext ==
    /\ UNCHANGED <<mfunc, arena>>
    /\ run.phase = "fwd"
    /\ \E r \in {ptiter_next(heap, iter)} :
           /\ iter' = r.it
           /\ run' = [run EXCEPT !.phase = IF r.trap THEN "trap"
                                           ELSE IF r.ret = NULL THEN "end" ELSE "fwd",
                                 !.out = IF r.ret # NULL /\ ~r.trap THEN Append(@, r.ret) ELSE @,
                                 !.cur = r.ret, !.trap = r.trap, !.pops = r.pops]
           /\ last' = Call("ptiter_next", r.ret, FALSE, NULL, FALSE)
    /\ UNCHANGED <<heap, live, stored, aborted>>

\* ptiter_prev from the end position, on a tree the forward pass left as it was
IterPrev ==
    /\ UNCHANGED <<mfunc, arena>>
    /\ run.phase \in {"end", "bwd"} /\ run.gone = {}
    /\ \E r \in {ptiter_prev(heap, iter)} :
           /\ iter' = r.it
           /\ run' = [run EXCEPT !.phase = IF r.trap THEN "trap"
                                           ELSE IF r.ret = NULL THEN "done" ELSE "bwd",
                                 !.back = IF r.ret # NULL /\ ~r.trap THEN Append(@, r.ret) ELSE @,
                                 !.cur = r.ret, !.trap = r.trap, !.pops = r.pops]
           /\ last' = Call("ptiter_prev", r.ret, FALSE, NULL, FALSE)
    /\ UNCHANGED <<heap, live, stored, aborted>>

\* patricia_evict of the node a post-order ptiter_next has just returned
IterEvict ==
    /\ UNCHANGED <<mfunc, arena>>
    /\ run.phase = "fwd" /\ iter.mode = ePTMode_postOrder
    /\ run.cur # NULL /\ run.cur \notin run.gone
    /\ \E r \in {patricia_evict(heap, run.cur, heap[run.cur].data, heap[run.cur].nbit)} :
           /\ r.ok /\ r.ret
           /\ heap' = r.heap
           /\ live' = live \ {r.freed}
           /\ stored' = MapDel(stored, NodeBits(heap, run.cur))
           /\ run' = [run EXCEPT !.gone = @ \cup {r.freed}]
           /\ last' = Call("evict", r.ret, FALSE, NULL, FALSE)
    /\ UNCHANGED <<aborted, iter>>

NextIter ==
    \/ \E k \in InsertKeys : IterInsert(k)
    \/ \E k \in InsertKeys : IterRemove(k)
    \/ \E root \in {NULL} \cup NodeIds, dir \in BOOLEAN, mode \in Modes : IterInit(root, dir, mode)
    \/ IterNext
    \/ IterPrev
    \/ IterEvict

SpecIter == Init /\ [][NextIter]_vars
\* sequences
Range(s) == {s[i] : i \in DOMAIN s}
NoRepeat(s) == \A i \in DOMAIN s, j \in DOMAIN s : (s[i] = s[j]) => (i = j)
StartsWith(s, p) == Len(p) <= Len(s) /\ \A i \in DOMAIN p : s[i] = p[i]
Reverse(s) == [i \in DOMAIN s |-> s[Len(s) + 1 - i]]
Max(S) == CHOOSE x \in S : \A y \in S : x >= y

\* ---- iterating a deep tree ---------------------------------------------------
\* Trees whose downlink paths are longer than the parent FIFO of the iterator;
\* their keys take two bytes.
DeepNodes == 12
DeepIds == 0..DeepNodes

\* the key with the given bits in a buffer of two bytes
DeepKey(bits) ==
    [buf |-> <<ByteOfBits([i \in 0..7 |-> IF i + 1 <= Len(bits) THEN bits[i + 1] ELSE 0]),
               ByteOfBits([i \in 0..7 |-> IF i + 9 <= Len(bits) THEN bits[i + 9] ELSE 0])>>,
     len |-> Len(bits)]

\* the words of the deep trees: runs of one bit value of growing length, runs
\* of alternating bits, and a run of ones with keys branching off it
RunOf(b, n) == [j \in 1..n |-> b]
Alternating(n) == [j \in 1..n |-> j % 2]
DeepWords ==
    { [i \in 1..DeepNodes |-> RunOf(1, i)],
      [i \in 1..(DeepNodes - 1) |-> RunOf(0, i + 1)],
      [i \in 1..DeepNodes |-> Alternating(i)],
      [i \in 1..DeepNodes |-> IF i <= 9 THEN RunOf(1, i)
                              ELSE RunOf(1, 3 * (i - 9)) \o <<0, 1>>],
      [i \in 1..DeepNodes |-> IF i % 2 = 1 THEN RunOf(1, (i + 1) \div 2) \o RunOf(0, (i + 1) \div 2)
                              ELSE RunOf(1, i \div 2) \o <<0, 1, 1>>] }

\* build_map_from_words: the words inserted one after the other, word i into
\* storage i with payload start_payload + i
RECURSIVE build_map_from_words(_, _, _, _)
build_map_from_words(h, words, i, start_payload) ==
    IF i > Len(words) THEN h
    ELSE LET k == DeepKey(words[i])
             r == patricia_insert(h, k.buf, k.len, start_payload + i, i)
         IN  build_map_from_words(r.heap, words, i + 1, start_payload)

DeepHeap(words) ==
    build_map_from_words([n \in DeepIds |-> IF n = Root THEN patricia_init[Root] ELSE FreedNode],
                         words, 1, 0)

InitDeep ==
    /\ \E words \in DeepWords :
          /\ heap = DeepHeap(words)
          /\ live = 1..Len(words)
          /\ stored = [b \in Range(words) |-> CHOOSE i \in DOMAIN words : words[i] = b]
    /\ last = Call("build", NULL, FALSE, NULL, FALSE)
    /\ aborted = FALSE
    /\ iter = IterZero
    /\ run = RunIdle
    /\ mfunc = mf_memfunc
    /\ arena = ArenaZero

NextDeep ==
    \/ \E root \in {NULL} \cup DeepIds, dir \in BOOLEAN, mode \in Modes : IterInit(root, dir, mode)
    \/ IterNext
    \/ IterPrev

SpecDeep == InitDeep /\ [][NextDeep]_vars

\* the length of the longest downlink path below n, n counted
RECURSIVE Height(_, _)
Height(h, n) ==
    1 + Max({0} \cup {Height(h, Child(h, n, i)) : i \in {j \in 0..1 : IsDownlink(h, n, j)}})

\* ---- emptying a tree of four keys ----------------------------------------------
\* A caller that builds a tree by inserting four keys and evicts its nodes one
\* after the other, in any order.
EvictNodes == 4

\* the keys of one and two bits, and four keys of three bits
EvictKeyBits ==
    UNION {[1..n -> {0, 1}] : n \in 1..2} \cup {<<0, 1, 0>>, <<0, 1, 1>>, <<1, 0, 0>>, <<1, 0, 1>>}
EvictWords == {words \in [1..EvictNodes -> EvictKeyBits] : NoRepeat(words)}

InitEvict ==
    /\ \E words \in EvictWords :
          /\ heap = DeepHeap(words)
          /\ live = 1..Len(words)
          /\ stored = [b \in Range(words) |-> CHOOSE i \in DOMAIN words : words[i] = b]
    /\ last = Call("build", NULL, FALSE, NULL, FALSE)
    /\ aborted = FALSE
    /\ iter = IterZero
    /\ run = RunIdle
    /\ mfunc = mf_memfunc
    /\ arena = ArenaZero

\* the walk _pwalk makes for node x of heap h with x's own key
WalkOf(h, x) == _pwalk(h, x, h[x].data, h[x].nbit)

\* the fields of the nodes other than x in which heap h2 differs from heap h
Written(h, h2, x) ==
    {nf \in (DOMAIN h \ {x}) \X {"child0", "child1", "bpos", "nbit", "data", "payload"} :
        LET n == nf[1]
        IN  \/ nf[2] = "child0"  /\ Child(h2, n, 0) # Child(h, n, 0)
            \/ nf[2] = "child1"  /\ Child(h2, n, 1) # Child(h, n, 1)
            \/ nf[2] = "bpos"    /\ h2[n].bpos # h[n].bpos
            \/ nf[2] = "nbit"    /\ h2[n].nbit # h[n].nbit
            \/ nf[2] = "data"    /\ h2[n].data # h[n].data
            \/ nf[2] = "payload" /\ h2[n].payload # h[n].payload}

SlotName(i) == IF i = 0 THEN "child0" ELSE "child1"

\* the fields _evict may write for the walk: the slot of `over` that holds
\* `last`, and when last differs from x the slot of npar that holds x, both
\* slots of `last` and its bpos
EvictFrame(h, walk) ==
    {<<walk.over, SlotName(_childIdx(h, walk.over, walk.last))>>}
    \cup (IF walk.last = walk.node THEN {}
          ELSE {<<walk.npar, SlotName(_childIdx(h, walk.npar, walk.node))>>,
                <<walk.last, "child0">>, <<walk.last, "child1">>, <<walk.last, "bpos">>})

\* patricia_evict of a node of the tree; the caller notes the walk, the fields
\* the call may write and the fields it finds changed
EvictWalk(n) ==
    /\ UNCHANGED <<mfunc, arena>>
    /\ ~aborted /\ n \in live
    /\ \E r \in {patricia_evict(heap, n, heap[n].data, heap[n].nbit)} :
           /\ r.ok
           /\ heap' = r.heap
           /\ live' = live \ {r.freed}
           /\ stored' = MapDel(stored, NodeBits(heap, n))
           /\ last' = Call("evict", r.ret, FALSE, NULL, FALSE)
           /\ run' = [RunIdle EXCEPT !.phase = "evicted", !.cur = n, !.arg = WalkOf(heap, n),
                                     !.ref = EvictFrame(heap, WalkOf(heap, n)),
                                     !.log = Written(heap, r.heap, n)]
    /\ UNCHANGED <<aborted, iter>>

NextEvict == \E n \in 1..EvictNodes : EvictWalk(n)

SpecEvict == InitEvict /\ [][NextEvict]_vars

\* ---- callers of the key access functions ----------------------------------------
\* A key is described by its bits: a pattern repeated from bit 1, the last bits
\* given one by one, and the value of the bits of the last byte that lie beyond
\* the key.  Its buffer holds bit i (1 <= i <= len) as bit (i-1) mod 8 from the
\* high end of byte (i-1) div 8.
MaxUint16 == 65535
KeyDesc(len, pat, tail, pad) == [len |-> len, pat |-> pat, tail |-> tail, pad |-> pad]

\* bit i (1 <= i <= len) of the key
KeyBit(d, i) ==
    IF i > d.len - Len(d.tail) THEN d.tail[i - (d.len - Len(d.tail))]
    ELSE d.pat[((i - 1) % Len(d.pat)) + 1]

\* the buffer of the key, one byte at least
KeyBuf(d) ==
    [j \in 1..Max({1, (d.len + CHAR_BIT - 1) \div CHAR_BIT}) |->
        ByteOfBits([b \in 0..7 |-> IF 8 * (j - 1) + b + 1 <= d.len
                                   THEN KeyBit(d, 8 * (j - 1) + b + 1) ELSE d.pad])]

\* short keys, keys around the byte and the limb boundaries, and keys of the
\* greatest lengths a uint16_t holds
ShortLens == (0..MaxBit) \cup {7, 8, 9, 63, 64, 65}
Patterns == {<<0>>, <<1, 0>>}
Tails == {<<>>, <<0, 1>>, <<1, 0>>}
ShortKeys ==
    UNION {{KeyDesc(l, p, t, pad) : p \in Patterns, t \in {x \in Tails : Len(x) <= l},
                                    pad \in 0..1} : l \in ShortLens}
\* keys of ones of the greatest lengths, some with a zero before or at the end
LongKeys ==
    {KeyDesc(MaxUint16, <<1>>, <<0, 1>>, 0), KeyDesc(MaxUint16, <<1>>, <<>>, 0),
     KeyDesc(MaxUint16 - 1, <<1>>, <<1, 0>>, 0), KeyDesc(MaxUint16 - 1, <<1>>, <<>>, 0)}
\* the keys a key of the greatest lengths is compared with
LongPeers == LongKeys \cup {KeyDesc(1, <<1, 0>>, <<>>, 0)}
BitIdx(d) == {0, 1, 2, d.len - 1, d.len, d.len + 1, d.len + 2, 8, 9, 64, 65, MaxUint16} \cap (0..MaxUint16)

\* stream_skip against nextbits called over and over: one more call is one
\* more round, for every key of the model that is not of the greatest lengths
StreamSkipExact ==
    \A d \in ShortKeys : \A n \in 0..3 :
        LET bs == BitStream(KeyBuf(d), d.len)
        IN  /\ stream_skip(bs, 0) = bs
            /\ stream_skip(bs, n + 1) = nextbits(stream_skip(bs, n)).bs

\* one call from the caller's idle state; the arguments and the value returned
BitsCall(op, a, b, i, ret) ==
    [RunIdle EXCEPT !.phase = op, !.arg = <<a, b, i>>, !.cur = ret]

GetBit(d, i) ==
    /\ UNCHANGED <<mfunc, arena>>
    /\ run.phase = "idle"
    /\ run' = BitsCall("getbit", d, d, i, patricia_getbit(KeyBuf(d), d.len, i))
    /\ UNCHANGED <<heap, live, stored, last, aborted, iter>>

BitDiff(a, b) ==
    /\ UNCHANGED <<mfunc, arena>>
    /\ run.phase = "idle"
    /\ run' = BitsCall("bitdiff", a, b, 0, patricia_bitdiff(KeyBuf(a), a.len, KeyBuf(b), b.len))
    /\ UNCHANGED <<heap, live, stored, last, aborted, iter>>

EquKey(a, b) ==
    /\ UNCHANGED <<mfunc, arena>>
    /\ run.phase = "idle"
    /\ run' = BitsCall("equkey", a, b, 0, patricia_equkey(KeyBuf(a), a.len, KeyBuf(b), b.len))
    /\ UNCHANGED <<heap, live, stored, last, aborted, iter>>

NextBits ==
    \/ \E d \in ShortKeys \cup LongKeys : \E i \in BitIdx(d) : GetBit(d, i)
    \/ \E a \in ShortKeys, b \in ShortKeys : BitDiff(a, b)
    \/ \E a \in LongKeys, b \in LongPeers : BitDiff(a, b)
    \/ \E a \in ShortKeys, b \in ShortKeys : EquKey(a, b)

SpecBits == Init /\ [][NextBits]_vars
\* ---- callers with a memory policy of their own ----------------------------------
\* patricia_init_ex with a policy: the free hook and the arena killer may each
\* be there or be NULL
Policies == {PTMemFuncT(free, kill) : free \in BOOLEAN, kill \in BOOLEAN}

InitEx ==
    /\ heap = patricia_init
    /\ live = {}
    /\ stored = <<>>
    /\ last = Call("init", NULL, FALSE, NULL, FALSE)
    /\ aborted = FALSE
    /\ iter = IterZero
    /\ run = RunIdle
    /\ mfunc \in Policies
    /\ arena = ArenaZero

\* patricia_evict of a node of the tree; storage is released to the allocator
\* only through the free hook
PolicyEvict(n) ==
    /\ UNCHANGED <<mfunc, arena>>
    /\ ~aborted /\ run.phase = "idle"
    /\ n \in TreeNodes(heap)
    /\ \E r \in {patricia_evict(heap, n, heap[n].data, heap[n].nbit)} :
           /\ r.ok /\ r.ret
           /\ heap' = r.heap
           /\ live' = live \ FreedBy(ptnode_free(mfunc, r.freed))
           /\ stored' = MapDel(stored, NodeBits(heap, n))
           /\ run' = [RunIdle EXCEPT !.cur = r.freed, !.log = ptnode_free(mfunc, r.freed)]
           /\ last' = Call("evict", r.ret, FALSE, NULL, FALSE)
    /\ UNCHANGED <<aborted, iter>>

\* patricia_fini_ex; the arena killer releases whatever the arena holds
PolicyFini(uarg) ==
    /\ UNCHANGED <<mfunc, arena>>
    /\ ~aborted /\ run.phase = "idle"
    /\ \E r \in {patricia_fini_ex(heap, mfunc, uarg)} :
           /\ heap' = r.heap
           /\ live' = IF mfunc.fp_kill THEN {} ELSE live \ FreedBy(r.log)
           /\ stored' = <<>>
           /\ last' = Call("fini", NULL, FALSE, NULL, FALSE)
           /\ run' = [RunIdle EXCEPT !.phase = "fini", !.arg = uarg, !.log = r.log,
                                     !.trap = r.trap, !.term = r.term]
    /\ UNCHANGED <<aborted, iter>>

NextPolicy ==
    \/ \E k \in InsertKeys : IterInsert(k)
    \/ \E n \in NodeIds : PolicyEvict(n)
    \/ \E uarg \in UArgs : PolicyFini(uarg)

SpecPolicy == InitEx /\ [][NextPolicy]_vars
\* ---- callers that insert keys of the greatest lengths ---------------------------
\* A caller that inserts short keys and keys of 65534 and 65535 bits into one
\* tree and keeps, for every insert, the tree as it was before the call.
KeyOf(d) == [buf |-> KeyBuf(d), len |-> d.len]

\* the two keys of the greatest lengths: 65533 ones and a zero, and the same
\* followed by a one
FrameLong == {KeyDesc(MaxUint16 - 1, <<1>>, <<1, 0>>, 0), KeyDesc(MaxUint16, <<1>>, <<0, 1>>, 0)}
\* three short keys beside them: 0, 1 and 11
FrameShort == {KeyDesc(1, <<0>>, <<>>, 0), KeyDesc(1, <<1>>, <<>>, 0), KeyDesc(2, <<1>>, <<>>, 0)}
FrameKeys == {KeyOf(d) : d \in FrameShort \cup FrameLong}

\* patricia_insert of key k.  When assert(0 != bpos) fails, the build with
\* assertions aborts and the build without them goes on.
FrameInsert(k) ==
    /\ UNCHANGED <<mfunc, arena>>
    /\ ~aborted
    /\ \E mem \in {fp_alloc(TRUE)} : \E r \in {patricia_insert(heap, k.buf, k.len, k.len, mem)} :
           \/ /\ ~r.ok
              /\ aborted' = TRUE
              /\ last' = Call("insert", NULL, FALSE, NULL, FALSE)
              /\ run' = [RunIdle EXCEPT !.phase = "assert", !.arg = k, !.ref = heap]
              /\ UNCHANGED <<heap, live>>
           \/ /\ heap' = r.heap
              /\ live' = IF r.alloc /\ mem # NULL THEN live \cup {mem} ELSE live
              /\ last' = Call("insert", r.ret, r.inserted, NULL, FALSE)
              /\ run' = [RunIdle EXCEPT !.phase = "inserted", !.arg = k, !.ref = heap,
                                        !.cur = descend(heap, k.buf, k.len, Child(heap, Root, 0),
                                                        heap[Root].bpos)]
              /\ UNCHANGED aborted
    /\ UNCHANGED <<stored, iter>>

NextFrame == \E k \in FrameKeys : FrameInsert(k)

SpecFrame == Init /\ [][NextFrame]_vars
\* ---- callers that step an iterator back and forth ------------------------------
\* A caller that builds a tree, sets an iterator on it and then calls
\* ptiter_next, ptiter_prev and ptiter_reset in any order.  Beside the iterator
\* the caller keeps a position in the traversal sequence of the iterator's
\* order and direction (run.out: the nodes before the position), the node a
\* cursor at that position would return from the call (run.want), the call
\* before this one (run.prev), and, from the first ptiter_reset on, a second
\* iterator that was initialised afresh at the reset and takes the same calls
\* (run.twin, its last return value in run.tret).
WalkInit(root, dir, mode) ==
    /\ UNCHANGED <<mfunc, arena>>
    /\ ~aborted /\ run.phase = "idle"
    /\ root \in {NULL} \cup TreeNodes(heap)
    /\ iter' = ptiter_init(heap, root, dir, mode)
    /\ run' = [RunIdle EXCEPT !.phase = "walk", !.arg = root,
                              !.ref = RefTraversal(heap, IterRootOf(heap, root), mode, dir)]
    /\ last' = Call("ptiter_init", NULL, FALSE, NULL, FALSE)
    /\ UNCHANGED <<heap, live, stored, aborted>>

\* the node a cursor before ref[pos + 1] returns, and where it then stands
CursorNext(ref, pos) ==
    IF pos < Len(ref) THEN [ret |-> ref[pos + 1], pos |-> pos + 1] ELSE [ret |-> NULL, pos |-> pos]
CursorPrev(ref, pos) ==
    IF pos > 0 THEN [ret |-> ref[pos], pos |-> pos - 1] ELSE [ret |-> NULL, pos |-> pos]

\* one call of ptiter_next (fwd) or ptiter_prev on the iterator and on its twin
WalkStep(fwd) ==
    /\ UNCHANGED <<mfunc, arena>>
    /\ run.phase \in {"walk", "rewalk"}
    /\ \E r \in {IF fwd THEN ptiter_next(heap, iter) ELSE ptiter_prev(heap, iter)} :
       \E c \in {IF fwd THEN CursorNext(run.ref, Len(run.out))
                        ELSE CursorPrev(run.ref, Len(run.out))} :
       \E t \in {IF run.phase = "walk" THEN [it |-> NULL, ret |-> NULL]
                 ELSE IF fwd THEN ptiter_next(heap, run.twin)
                 ELSE ptiter_prev(heap, run.twin)} :
           /\ iter' = r.it
           /\ run' = [run EXCEPT !.out = SubSeq(run.ref, 1, c.pos), !.want = c.ret,
                                 !.cur = r.ret, !.trap = r.trap, !.pops = r.pops,
                                 !.prev = <<last.op, last.ret>>,
                                 !.twin = t.it, !.tret = t.ret]
           /\ last' = Call(IF fwd THEN "ptiter_next" ELSE "ptiter_prev", r.ret, FALSE, NULL, FALSE)
    /\ UNCHANGED <<heap, live, stored, aborted>>

\* ptiter_reset; the twin is initialised afresh
WalkReset ==
    /\ UNCHANGED <<mfunc, arena>>
    /\ run.phase \in {"walk", "rewalk"}
    /\ iter' = ptiter_reset(iter)
    /\ run' = [run EXCEPT !.phase = "rewalk", !.out = <<>>, !.want = NULL, !.cur = NULL,
                          !.pops = <<>>, !.prev = <<last.op, last.ret>>,
                          !.twin = ptiter_init(heap, run.arg, iter.dir, iter.mode),
                          !.tret = NULL]
    /\ last' = Call("ptiter_reset", NULL, FALSE, NULL, FALSE)
    /\ UNCHANGED <<heap, live, stored, aborted>>

NextWalk ==
    \/ \E k \in InsertKeys : IterInsert(k)
    \/ \E k \in InsertKeys : IterRemove(k)
    \/ \E root \in {NULL} \cup NodeIds, dir \in BOOLEAN, mode \in Modes : WalkInit(root, dir, mode)
    \/ \E fwd \in BOOLEAN : WalkStep(fwd)
    \/ WalkReset

SpecWalk == Init /\ [][NextWalk]_vars
\* ---- stepping back and forth on a deep tree ------------------------------------
\* The deep trees under every interleaving of ptiter_next and ptiter_prev.
NextDeepWalk ==
    \/ \E root \in {NULL} \cup DeepIds, dir \in BOOLEAN, mode \in Modes : WalkInit(root, dir, mode)
    \/ \E fwd \in BOOLEAN : WalkStep(fwd)

SpecDeepWalk == InitDeep /\ [][NextDeepWalk]_vars

\* ---- callers of the bump pool --------------------------------------------------
\* An arena initialised by vmBump_init with blocks of up to MaxPages pages and
\* a limit of up to MaxBlkCnt blocks; the caller allocates and may give the
\* arena back.  A block length that is no multiple of the page size fails the
\* initialisation.
MaxPages == 2
MaxBlkCnt == 2
BlkLens == {n * s_pagesize : n \in 1..MaxPages} \cup {100}
AllocSizes == {2000, 8100, MaxCore + 1}
Aligns == {1, 16}

InitPool ==
    /\ heap = patricia_init
    /\ live = {}
    /\ stored = <<>>
    /\ last = Call("vmBump_init", TRUE, FALSE, NULL, FALSE)
    /\ aborted = FALSE
    /\ iter = IterZero
    /\ run = RunIdle
    /\ mfunc = mf_memfunc
    /\ \E blklen \in BlkLens, blkcnt \in 1..MaxBlkCnt :
          /\ vmBump_init(blklen, blkcnt).ok
          /\ arena = vmBump_init(blklen, blkcnt).arena

\* vmBump_alloc; the caller notes the request, the outcomes of the system
\* calls, the arena as it was, and the errno
PoolAlloc(bytes, align, sys) ==
    /\ \E r \in {vmBump_alloc(arena, bytes, align, sys)} :
           /\ arena' = r.arena
           /\ last' = Call("vmBump_alloc", IF r.ok THEN r.off ELSE NULL, FALSE, NULL, FALSE)
           /\ run' = [RunIdle EXCEPT !.phase = "alloc", !.arg = <<bytes, align, sys>>,
                                     !.ref = arena, !.cur = r.retv]
    /\ UNCHANGED <<heap, live, stored, aborted, iter, mfunc>>

\* vmBump_fini: the blocks are released, the block length and the limit stay
PoolFini ==
    /\ arena.head # <<>>
    /\ arena' = vmBump_fini(arena)
    /\ last' = Call("vmBump_fini", NULL, FALSE, NULL, FALSE)
    /\ run' = [RunIdle EXCEPT !.phase = "fini", !.ref = arena]
    /\ UNCHANGED <<heap, live, stored, aborted, iter, mfunc>>

NextPool ==
    \/ \E bytes \in AllocSizes, align \in Aligns, sys \in SysOutcomes : PoolAlloc(bytes, align, sys)
    \/ PoolFini

SpecPool == InitPool /\ [][NextPool]_vars

\* ---- C1 -----------------------------------------------------------------------
\* C1: in every reachable state every node of the tree is held by exactly two
\* child slots of the tree, one of a node with smaller bpos (the downlink) and
\* one of the node itself or of a node with bpos >= its own (the uplink); the
\* root sentinel is held by exactly one slot besides its own child[1].
C1_TwoReference ==
    /\ \A x \in TreeNodes(heap) :
          /\ Cardinality(Refs(heap, x)) = 2
          /\ Cardinality({s \in Refs(heap, x) : heap[s[1]].bpos < heap[x].bpos}) = 1
          /\ Cardinality({s \in Refs(heap, x) :
                            s[1] = x \/ heap[s[1]].bpos >= heap[x].bpos}) = 1
    /\ Cardinality(Refs(heap, Root) \ {<<Root, 1>>}) = 1

\* an evict has rewired a tree in which a node's uplink is held by another node
C1_Witness ==
    /\ last.op = "evict" /\ last.ret = TRUE
    /\ Cardinality(TreeNodes(heap)) >= 2
    /\ \E x \in TreeNodes(heap) : ~_isParentOf(heap, x, x)

\* ---- C2 -----------------------------------------------------------------------
\* the keys of bit length >= 1 a caller may look up or store
KeysGE1 == {k \in InputKeys : k.len >= 1}
IsStored(k) == BitsOf(k) \in DOMAIN stored

\* C2: the tree refines the finite map `stored`: for every key of bit length
\* >= 1, patricia_lookup returns a node iff the key was inserted and not removed
\* since; that node is a node of the tree, its nbit and key bits are the key's
\* and its payload is the one given to the insert that created it.  An insert
\* of a key that is not stored (the allocator succeeding) returns the new node
\* with inserted = true and a following lookup returns that same node.
C2_Refinement ==
    /\ \A k \in KeysGE1 :
          LET n == patricia_lookup(heap, k.buf, k.len)
          IN  /\ (n # NULL) <=> IsStored(k)
              /\ n # NULL =>
                    /\ n \in TreeNodes(heap)
                    /\ heap[n].nbit = k.len
                    /\ NodeBits(heap, n) = BitsOf(k)
                    /\ heap[n].payload = stored[BitsOf(k)]
    /\ \A k \in KeysGE1 \cap InsertKeys :
          (~IsStored(k) /\ fp_alloc(TRUE) # NULL) =>
              \A p \in Payloads(k) :
                  LET r == patricia_insert(heap, k.buf, k.len, p, fp_alloc(TRUE))
                  IN  /\ r.ok /\ r.inserted
                      /\ r.ret = fp_alloc(TRUE)
                      /\ r.heap[r.ret].payload = p
                      /\ \A q \in KeysGE1 :
                            BitsOf(q) = BitsOf(k) =>
                                patricia_lookup(r.heap, q.buf, q.len) = r.ret

\* an insert has created the third node of a tree, and a lookup through a
\* buffer with set bits beyond the key finds it
C2_Witness ==
    /\ last.op = "insert" /\ last.ins
    /\ Cardinality(DOMAIN stored) = MaxNodes
    /\ \E k \in KeysGE1 \ InsertKeys :
          /\ patricia_lookup(heap, k.buf, k.len) = last.ret
          /\ \E q \in KeysGE1 : ~IsStored(q)

\* ---- C3 -----------------------------------------------------------------------
\* C3: an insert of a key that is stored, with any payload and whatever the
\* allocator would return, returns the node a lookup finds with inserted =
\* false, does not call the allocator, and leaves the heap as it was: the
\* stored payload, every child slot and bpos, and the set of nodes.
C3_DuplicateInsert ==
    \A k \in KeysGE1 :
        IsStored(k) =>
            \A p \in Payloads(k), mem \in {fp_alloc(TRUE), NULL} :
                LET r == patricia_insert(heap, k.buf, k.len, p, mem)
                IN  /\ r.ok /\ ~r.inserted /\ ~r.alloc
                    /\ r.ret # NULL
                    /\ r.ret = patricia_lookup(heap, k.buf, k.len)
                    /\ r.heap = heap
                    /\ r.heap[r.ret].payload = stored[BitsOf(k)]
                    /\ TreeNodes(r.heap) = TreeNodes(heap)

\* a repeated insert has returned a node of a tree of two or more keys
C3_Witness ==
    /\ last.op = "insert" /\ ~last.ins
    /\ last.ret \in live
    /\ Cardinality(live) >= 2
    /\ heap[last.ret].payload # OtherPayload

\* ---- C4 -----------------------------------------------------------------------
\* C4: patricia_remove of a stored key returns true, yields the payload stored
\* with the key, frees the node a lookup of the key found, and takes exactly
\* that key out: afterwards no buffer holding the key is found, every other
\* stored key is found in the node it was in, with its key and payload, and
\* the tree has lost the freed node only.  When no key is stored the tree is
\* empty: child[0] of the root sentinel is the sentinel itself.
C4_Remove ==
    /\ \A k \in KeysGE1 :
          IsStored(k) =>
              LET r == patricia_remove(heap, k.buf, k.len)
              IN  /\ r.ok /\ r.ret = TRUE
                  /\ r.pout = stored[BitsOf(k)]
                  /\ r.freed = patricia_lookup(heap, k.buf, k.len)
                  /\ TreeNodes(r.heap) = TreeNodes(heap) \ {r.freed}
                  /\ \A q \in KeysGE1 :
                        LET n == patricia_lookup(r.heap, q.buf, q.len)
                        IN  IF BitsOf(q) = BitsOf(k) THEN n = NULL
                            ELSE IsStored(q) =>
                                    /\ n = patricia_lookup(heap, q.buf, q.len)
                                    /\ NodeBits(r.heap, n) = BitsOf(q)
                                    /\ r.heap[n].payload = stored[BitsOf(q)]
    /\ (DOMAIN stored = {}) =>
          /\ Child(heap, Root, 0) = Root
          /\ TreeNodes(heap) = {}

\* a remove has taken a key out of a tree of three and written its payload out;
\* a node that is left has its uplink in another node
C4_Witness ==
    /\ last.op = "remove" /\ last.ret = TRUE
    /\ last.pout # NULL
    /\ Cardinality(DOMAIN stored) = MaxNodes - 1
    /\ \E x \in TreeNodes(heap) : ~_isParentOf(heap, x, x)

\* the removes of a tree's keys have emptied it
C4_WitnessEmpty ==
    /\ last.op = "remove" /\ last.ret = TRUE
    /\ DOMAIN stored = {}

\* ---- C5 -----------------------------------------------------------------------
\* C5: for every key that is not stored, patricia_insert of the key (the
\* allocator succeeding) followed by patricia_remove of the key, through any
\* buffer that holds it, restores the tree: the root sentinel and every node
\* that was in the tree have their earlier child slots, bpos, key and payload,
\* the tree has the nodes it had, and the node made in between is freed.
C5_InsertRemove ==
    \A k \in InsertKeys :
        (~IsStored(k) /\ fp_alloc(TRUE) # NULL) =>
            \A p \in Payloads(k), q \in InputKeys :
                BitsOf(q) = BitsOf(k) =>
                    LET r  == patricia_insert(heap, k.buf, k.len, p, fp_alloc(TRUE))
                        r2 == patricia_remove(r.heap, q.buf, q.len)
                    IN  /\ r.ok /\ r2.ok
                        /\ (k.len >= 1) => (r.inserted /\ r2.ret = TRUE /\ r2.freed = r.ret)
                        /\ \A n \in TreeNodes(heap) \cup {Root} : r2.heap[n] = heap[n]
                        /\ TreeNodes(r2.heap) = TreeNodes(heap)
                        /\ r2.heap = heap

\* a remove has taken out the node the call before had inserted into a tree of
\* two or more keys
C5_Witness ==
    /\ last.op = "remove" /\ last.undo
    /\ Cardinality(TreeNodes(heap)) >= 2

\* ---- C6 -----------------------------------------------------------------------
\* C6: for every key that is not stored, patricia_lookup returns NULL, and
\* patricia_remove returns false, writes nothing through payload_out, frees no
\* node and leaves the heap as it was.
C6_Miss ==
    \A k \in InputKeys :
        ~IsStored(k) =>
            /\ patricia_lookup(heap, k.buf, k.len) = NULL
            /\ LET r == patricia_remove(heap, k.buf, k.len)
               IN  /\ r.ok /\ r.ret = FALSE
                   /\ r.pout = NULL /\ r.freed = NULL
                   /\ r.heap = heap

\* ---- C7 -----------------------------------------------------------------------
\* C7: when the allocator returns NULL, patricia_insert of a key that is not
\* stored calls it (for every key of bit length >= 1), returns NULL with
\* inserted = false and leaves the heap as it was: no child slot or bpos is
\* modified and the tree has the nodes it had.
C7_AllocFailure ==
    \A k \in InputKeys :
        ~IsStored(k) =>
            \A p \in Payloads(k) :
                LET r == patricia_insert(heap, k.buf, k.len, p, NULL)
                IN  /\ r.ok
                    /\ (k.len >= 1) => r.alloc
                    /\ r.alloc =>
                          /\ r.ret = NULL /\ ~r.inserted
                          /\ r.heap = heap
                          /\ TreeNodes(r.heap) = TreeNodes(heap)

\* an insert into a tree of two keys has failed for want of memory
C7_Witness ==
    /\ last.op = "insert" /\ last.ret = NULL /\ ~last.ins
    /\ ~aborted
    /\ Cardinality(TreeNodes(heap)) = 2
    /\ fp_alloc(TRUE) # NULL

\* ---- C8 -----------------------------------------------------------------------
\* C8: patricia_evict of a node that is not in the tree (a node of another
\* tree, the storage of a node evicted before, NULL, the root sentinel) returns
\* false, every assertion of _pwalk and _evict holds, no node is freed and the
\* heap is left as it was.
C8_EvictNotInTree ==
    /\ \A n \in OtherIds, k \in ForeignKeys :
          LET r == patricia_evict(heap, n, k.buf, k.len)
          IN  r.ok /\ r.ret = FALSE /\ r.freed = NULL /\ r.heap = heap
    /\ \A n \in {NULL, Root} :
          LET r == patricia_evict(heap, n, <<0>>, 0)
          IN  r.ok /\ r.ret = FALSE /\ r.freed = NULL /\ r.heap = heap

\* ---- C9 -----------------------------------------------------------------------
\* the bit string a is a prefix of the bit string b
IsPrefixOf(a, b) == Len(a) <= Len(b) /\ \A i \in 1..Len(a) : a[i] = b[i]

\* the nodes of the tree whose stored key is a bit-exact prefix of the key k
PrefixNodes(h, k) == {n \in TreeNodes(h) : IsPrefixOf(NodeBits(h, n), BitsOf(k))}

\* C9: for every search key, patricia_prefix returns the node of the tree that
\* holds the longest stored key that is a bit-exact prefix of the search key,
\* and NULL when no stored key is a prefix of it.
C9_LongestPrefix ==
    \A k \in InputKeys :
        LET n == patricia_prefix(heap, k.buf, k.len)
            S == PrefixNodes(heap, k)
        IN  IF S = {} THEN n = NULL
            ELSE n \in S /\ \A m \in S : heap[m].nbit <= heap[n].nbit

\* ---- C10 ----------------------------------------------------------------------
\* C10: whenever patricia_prefix returns a node, its nbit is <= the bit length
\* of the search key and its key is the first nbit bits of the search key,
\* whatever the buffer holds beyond the bits of the search key.
C10_PrefixNotLonger ==
    \A k \in InputKeys :
        LET n == patricia_prefix(heap, k.buf, k.len)
        IN  (n # NULL) =>
                /\ heap[n].nbit <= k.len
                /\ IsPrefixOf(NodeBits(heap, n), BitsOf(k))

\* ---- C11 ----------------------------------------------------------------------
\* C11: patricia_prefix never returns the root sentinel nor any node whose key
\* has bit length 0, whatever the search key.
C11_PrefixNeverSentinel ==
    \A k \in InputKeys :
        LET n == patricia_prefix(heap, k.buf, k.len)
        IN  /\ n # Root
            /\ (n # NULL) => heap[n].nbit > 0

\* ---- C12 ----------------------------------------------------------------------
\* C12: on an empty tree, for every key of every bit length, patricia_lookup
\* and patricia_prefix return NULL and patricia_remove returns false;
\* ptiter_next on a fresh iterator of any order and direction returns NULL at
\* once; patricia_fini calls the payload deleter and the free hook zero times.
C12_EmptyTree ==
    (TreeNodes(heap) = {}) =>
        /\ \A k \in InputKeys :
              /\ patricia_lookup(heap, k.buf, k.len) = NULL
              /\ patricia_prefix(heap, k.buf, k.len) = NULL
              /\ patricia_remove(heap, k.buf, k.len).ok
              /\ ~patricia_remove(heap, k.buf, k.len).ret
        /\ \A mode \in Modes, dir \in BOOLEAN :
              LET r == ptiter_next(heap, ptiter_init(heap, NULL, dir, mode))
              IN  r.ret = NULL /\ ~r.trap
        /\ patricia_fini(heap, mfunc).log = <<>>

\* the part of C12 that the code keeps: on an empty tree lookup of a key of
\* at least one bit returns NULL, remove returns false for every key, a fresh
\* iterator ends at once and the teardown calls no hook
C12_EmptyTreeKept ==
    (TreeNodes(heap) = {}) =>
        /\ \A k \in InputKeys :
              /\ (k.len > 0) => patricia_lookup(heap, k.buf, k.len) = NULL
              /\ patricia_remove(heap, k.buf, k.len).ok
              /\ ~patricia_remove(heap, k.buf, k.len).ret
        /\ \A mode \in Modes, dir \in BOOLEAN :
              LET r == ptiter_next(heap, ptiter_init(heap, NULL, dir, mode))
              IN  r.ret = NULL /\ ~r.trap
        /\ patricia_fini(heap, mfunc).log = <<>>
\* ---- C13 ----------------------------------------------------------------------
\* the keys of bit length 0, and whether the tree holds a node with such a key
EmptyKeys == {k \in InputKeys : k.len = 0}
HasEmptyKey(h) == \E n \in TreeNodes(h) : h[n].nbit = 0

\* C13: a key of bit length 0 is handled like any other.  While no node holds
\* it, patricia_lookup of it returns NULL and patricia_insert (the allocator
\* succeeding) creates a node for it with inserted = true; a lookup after the
\* insert returns that node and patricia_remove deletes it.  No patricia_insert
\* and no patricia_lookup returns the root sentinel.
C13_EmptyKeyLegal ==
    /\ \A k \in EmptyKeys :
          (~HasEmptyKey(heap) /\ fp_alloc(TRUE) # NULL) =>
              /\ patricia_lookup(heap, k.buf, k.len) = NULL
              /\ \A p \in Payloads(k) :
                    LET r  == patricia_insert(heap, k.buf, k.len, p, fp_alloc(TRUE))
                        r2 == patricia_remove(r.heap, k.buf, k.len)
                    IN  /\ r.ok /\ r.inserted /\ r.ret = fp_alloc(TRUE)
                        /\ patricia_lookup(r.heap, k.buf, k.len) = r.ret
                        /\ r2.ok /\ r2.ret = TRUE /\ r2.freed = r.ret
    /\ \A k \in InputKeys :
          /\ patricia_lookup(heap, k.buf, k.len) # Root
          /\ \A p \in Payloads(k), mem \in {fp_alloc(TRUE), NULL} :
                patricia_insert(heap, k.buf, k.len, p, mem).ret # Root

\* ---- C14 ----------------------------------------------------------------------
\* C14: in every reachable state no two nodes of the tree hold equal keys (the
\* same bit length and the same bits).
C14_KeyUniqueness ==
    \A n \in TreeNodes(heap), m \in TreeNodes(heap) :
        (n # m) => ~(heap[n].nbit = heap[m].nbit /\ NodeBits(heap, n) = NodeBits(heap, m))

\* a repeated insert has been turned down by a tree that holds three keys, two
\* of them of the same bit length
C14_Witness ==
    /\ last.op = "insert" /\ ~last.ins /\ last.ret \in live
    /\ Cardinality(TreeNodes(heap)) = MaxNodes
    /\ \E n \in TreeNodes(heap), m \in TreeNodes(heap) :
          n # m /\ heap[n].nbit = heap[m].nbit

\* ---- C15 ----------------------------------------------------------------------

\* the forward pass of an iterator over a tree nobody changes
ForwardPass ==
    /\ run.phase \in {"fwd", "end"} \/ (run.phase = "trap" /\ last.op = "ptiter_next")
    /\ run.gone = {}

\* C15: for every tree that inserts and removes can build, every order and both
\* directions, the nodes ptiter_next returns on a fresh whole-tree iterator are,
\* call by call, the textbook recursive traversal of the downlink tree (child[0]
\* first when dir is true, child[1] first when dir is false); when ptiter_next
\* returns NULL every node of the tree has been returned exactly once.
C15_ForwardOrder ==
    (ForwardPass /\ run.arg = NULL) =>
        /\ ~run.trap
        /\ StartsWith(run.ref, run.out)
        /\ (run.phase = "end") =>
              /\ run.out = run.ref
              /\ Range(run.out) = TreeNodes(heap)
              /\ NoRepeat(run.out)
        /\ (run.phase = "fwd" /\ run.out # <<>>) => run.cur = run.out[Len(run.out)]

\* an in-order pass with dir = true has ended on a tree whose top node has a
\* left and a right subtree: left child, top node, right child
C15_Witness ==
    /\ run.phase = "end" /\ run.arg = NULL /\ run.gone = {}
    /\ iter.mode = ePTMode_inOrder /\ iter.dir
    /\ Len(run.out) = MaxNodes
    /\ run.out[2] = Child(heap, Root, 0)
    /\ run.out[1] = Child(heap, run.out[2], 0)
    /\ run.out[3] = Child(heap, run.out[2], 1)
    /\ IsDownlink(heap, run.out[2], 0) /\ IsDownlink(heap, run.out[2], 1)

\* ---- C16 ----------------------------------------------------------------------
\* C16: for every tree, order, direction and iteration root, stepping backward
\* with ptiter_prev from the end position (ptiter_next has returned NULL) until
\* ptiter_prev returns NULL returns the nodes ptiter_next returned, in reverse.
C16_ReverseOrder ==
    /\ (run.phase \in {"bwd", "done"}) =>
          /\ ~run.trap
          /\ StartsWith(Reverse(run.out), run.back)
    /\ (run.phase = "done") => run.back = Reverse(run.out)
    /\ (run.phase = "trap") => (last.op # "ptiter_prev")

\* a backward pass over a tree of three nodes has ended
C16_Witness ==
    /\ run.phase = "done"
    /\ Len(run.back) = MaxNodes
    /\ run.back[1] = run.out[MaxNodes] /\ run.back[MaxNodes] = run.out[1]
    /\ run.back[1] # run.back[MaxNodes]

\* ---- C17 ----------------------------------------------------------------------
\* the nodes that hold a downlink to x
DownlinkParents(h, x) ==
    {n \in TreeNodes(h) \cup {Root} : \E i \in 0..1 : IsDownlink(h, n, i) /\ Child(h, n, i) = x}

\* C17: on a tree nobody changes, every call of iter_parentPop for a cursor
\* that is not the iteration root returns the one node that holds a downlink to
\* the cursor, from the FIFO or from the recovery walk; a call for the
\* iteration root returns NULL, and no other call does; forward and backward,
\* the nodes returned are, call by call, the textbook traversal, which is what
\* a parent stack without a bound gives.
C17_ParentExact ==
    /\ run.phase # "trap" /\ ~run.trap
    /\ \A i \in DOMAIN run.pops :
          LET p == run.pops[i]
          IN  IF p.node = iter.root
              THEN p.ret = NULL
              ELSE p.ret # NULL /\ DownlinkParents(heap, p.node) = {p.ret}
    /\ StartsWith(run.ref, run.out)
    /\ StartsWith(Reverse(run.ref), run.back)
    /\ (run.phase \in {"end", "bwd", "done"}) => run.out = run.ref
    /\ (run.phase = "done") => run.back = Reverse(run.ref)

\* in a tree with a downlink path longer than the FIFO, a step has taken the
\* parent of one cursor from the FIFO and the parent of the next cursor, eight
\* levels above the deepest node, from the recovery walk
C17_Witness ==
    /\ run.phase = "fwd" /\ iter.root # NULL
    /\ Height(heap, iter.root) > PstkSize + 1
    /\ \E i \in DOMAIN run.pops, j \in DOMAIN run.pops :
          /\ ~run.pops[i].walked /\ run.pops[i].ret # NULL
          /\ run.pops[j].walked /\ run.pops[j].ret # NULL
          /\ run.pops[j].node = run.pops[i].ret
    /\ iter.stkLen > 0

\* ---- C18 ----------------------------------------------------------------------
\* C18: an iterator set on a node R of the tree returns the nodes of the
\* downlink subtree below R (R included), each once, in the selected order and
\* direction; its cursor and every node iter_parentPop returns are in that
\* subtree; an iterator set with a NULL root covers the whole tree.
C18_SubtreeIteration ==
    LET R == IF run.arg # NULL THEN run.arg ELSE Child(heap, Root, 0)
        S == IF run.arg # NULL THEN Subtree(heap, R) ELSE TreeNodes(heap)
    IN  ForwardPass =>
            /\ ~run.trap
            /\ Range(run.out) \subseteq S
            /\ NoRepeat(run.out)
            /\ iter.nodep \in S \cup {NULL}
            /\ \A i \in DOMAIN run.pops : run.pops[i].ret \in S \cup {NULL}
            /\ StartsWith(RefTraversal(heap, iter.root, iter.mode, iter.dir), run.out)
            /\ (run.phase = "end") => Range(run.out) = S

\* a pass over the subtree of a node that is not the top of the tree and has a
\* child of its own has ended
C18_Witness ==
    /\ run.phase = "end" /\ run.gone = {}
    /\ run.arg # NULL /\ run.arg # Child(heap, Root, 0)
    /\ Len(run.out) = 2
    /\ Cardinality(TreeNodes(heap)) = MaxNodes

\* ---- C19 ----------------------------------------------------------------------
\* a post-order pass over the whole tree, in which the caller may have evicted
\* nodes ptiter_next returned
PostOrderPass ==
    /\ run.phase \in {"fwd", "end", "trap"}
    /\ iter.mode = ePTMode_postOrder
    /\ run.arg = NULL

\* C19: in a post-order pass, in either direction, in which the caller evicts
\* any of the nodes ptiter_next returns, each right after it was returned, the
\* iterator reads no evicted node, returns only nodes that were in the tree at
\* ptiter_init, none of them twice and none after its eviction, and by the time
\* ptiter_next returns NULL it has returned every one of them; the pass ends
\* after at most as many calls as the tree had nodes, plus one.
C19_PostOrderEvict ==
    PostOrderPass =>
        /\ ~run.trap /\ run.phase # "trap"
        /\ NoRepeat(run.out)
        /\ Range(run.out) \subseteq Range(run.ref)
        /\ run.gone \subseteq Range(run.out)
        /\ (run.phase = "fwd" /\ run.out # <<>>) =>
              /\ run.cur = run.out[Len(run.out)]
              /\ run.gone \ {run.cur} \subseteq Range(SubSeq(run.out, 1, Len(run.out) - 1))
        /\ iter.nodep \notin run.gone
        /\ (run.phase = "end") => Range(run.out) = Range(run.ref)
        /\ TreeNodes(heap) = Range(run.ref) \ run.gone

\* a post-order pass has ended in which every node of a three-node tree was
\* evicted when it was returned
C19_Witness ==
    /\ PostOrderPass /\ run.phase = "end"
    /\ Len(run.out) = MaxNodes
    /\ run.gone = Range(run.out)
    /\ TreeNodes(heap) = {}

\* a post-order pass has ended in which only the second node returned was
\* evicted, a node whose place in the tree was taken by the node holding its
\* uplink
C19_WitnessSubset ==
    /\ PostOrderPass /\ run.phase = "end"
    /\ Len(run.out) = MaxNodes
    /\ run.gone = {run.out[2]}

\* ---- C20 ----------------------------------------------------------------------
\* the positions of the calls of one hook for node n in a teardown log
CallsOf(log, call, n) == {i \in DOMAIN log : log[i].call = call /\ log[i].node = n}

\* C20: for every reachable tree and every user context, patricia_fini_ex
\* terminates and reads no purged storage; for every node that was in the tree
\* the payload deleter is called exactly once, with the node's payload and the
\* user context, the free hook is called exactly once, and the deleter call
\* comes first; no hook is called for anything else; the tree is left empty,
\* both child slots of the root sentinel holding the sentinel.
C20_Teardown ==
    \A uarg \in UArgs :
        LET r == patricia_fini_ex(heap, mfunc, uarg)
        IN  /\ r.term /\ ~r.trap
            /\ \A n \in TreeNodes(heap) :
                  /\ Cardinality(CallsOf(r.log, "deleter", n)) = 1
                  /\ Cardinality(CallsOf(r.log, "fp_free", n)) = 1
                  /\ \A i \in CallsOf(r.log, "deleter", n) :
                        /\ r.log[i].payload = heap[n].payload
                        /\ r.log[i].uarg = uarg
                        /\ \A j \in CallsOf(r.log, "fp_free", n) : i < j
            /\ Len(r.log) = 2 * Cardinality(TreeNodes(heap))
            /\ Child(r.heap, Root, 0) = Root /\ Child(r.heap, Root, 1) = Root
            /\ TreeNodes(r.heap) = {}
            /\ \A n \in TreeNodes(heap) : r.heap[n] = FreedNode

\* a teardown has freed a tree of three nodes whose top node has a left subtree
\* and a right subtree
C20_Witness ==
    /\ run.phase = "fini" /\ run.arg = UserArg
    /\ Len(run.log) = 2 * MaxNodes
    /\ live = {}
    /\ heap = patricia_init

\* a teardown of a tree whose top node has a downlink in both child slots
C20_WitnessFork ==
    /\ Cardinality(TreeNodes(heap)) = MaxNodes
    /\ IsDownlink(heap, Child(heap, Root, 0), 0)
    /\ IsDownlink(heap, Child(heap, Root, 0), 1)

\* ---- C21 ----------------------------------------------------------------------
\* C21: in every reachable state the nodes obtained from the allocate hook and
\* not yet released are the nodes of the tree, and storage not in the tree is
\* purged.  patricia_evict of a node of the tree and a patricia_remove that
\* returns true release one node, the one that held the key, and leave no child
\* slot reachable from the root sentinel on it; a patricia_remove that returns
\* false releases nothing.  A patricia_insert that does not insert (the key is
\* there, or the allocator has returned NULL) keeps no allocation and leaves
\* the tree as it was.
C21_ResourceBalance ==
    /\ live = TreeNodes(heap)
    /\ \A n \in NodeIds \ live : heap[n] = FreedNode
    /\ \A n \in TreeNodes(heap) :
          LET r == patricia_evict(heap, n, heap[n].data, heap[n].nbit)
          IN  /\ r.ok /\ r.ret /\ r.freed = n
              /\ r.heap[n] = FreedNode
              /\ Refs(r.heap, n) = {}
              /\ TreeNodes(r.heap) = TreeNodes(heap) \ {n}
    /\ \A k \in InputKeys :
          LET r == patricia_remove(heap, k.buf, k.len)
          IN  /\ r.ok
              /\ r.ret => /\ r.freed \in TreeNodes(heap)
                          /\ heap[r.freed].nbit = k.len
                          /\ NodeBits(heap, r.freed) = BitsOf(k)
                          /\ r.heap[r.freed] = FreedNode
                          /\ Refs(r.heap, r.freed) = {}
                          /\ TreeNodes(r.heap) = TreeNodes(heap) \ {r.freed}
              /\ ~r.ret => (r.freed = NULL /\ r.heap = heap)
    /\ \A k \in InsertKeys, ok \in BOOLEAN :
          LET mem == fp_alloc(ok)
              r   == patricia_insert(heap, k.buf, k.len, PayloadOf(k), mem)
          IN  r.ok =>
                /\ ~r.inserted => (r.heap = heap /\ (r.alloc => mem = NULL))
                /\ r.inserted => (r.alloc /\ r.ret = mem
                                  /\ TreeNodes(r.heap) = TreeNodes(heap) \cup {mem})

\* a node has been evicted from a full tree: its storage is purged and
\* released, and the two nodes that stay form a path of downlinks
C21_Witness ==
    /\ last.op = "evict" /\ last.ret = TRUE
    /\ Cardinality(live) = MaxNodes - 1
    /\ \E n \in NodeIds \ live : heap[n] = FreedNode
    /\ \E n \in live : IsDownlink(heap, n, 0) \/ IsDownlink(heap, n, 1)

\* ---- C22 ----------------------------------------------------------------------
\* the positions of the calls of one hook in a log
Calls(log, call) == {i \in DOMAIN log : log[i].call = call}

\* C22: when the policy has an arena killer, patricia_fini_ex calls it once,
\* after every payload deleter call and every free hook call of the teardown,
\* and it does not call one the policy does not have; when the free hook of
\* the policy is NULL, neither patricia_evict nor the teardown calls a free
\* hook; when it is there, each calls it once for every node it purges.
C22_HookOrder ==
    /\ \A uarg \in UArgs :
          LET log == patricia_fini_ex(heap, mfunc, uarg).log
          IN  /\ Calls(log, "fp_kill") = IF mfunc.fp_kill THEN {Len(log)} ELSE {}
              /\ Cardinality(Calls(log, "deleter")) = Cardinality(TreeNodes(heap))
              /\ Cardinality(Calls(log, "fp_free")) =
                    IF mfunc.fp_free THEN Cardinality(TreeNodes(heap)) ELSE 0
    /\ (run.phase = "fini") =>
          /\ Calls(run.log, "fp_kill") = IF mfunc.fp_kill THEN {Len(run.log)} ELSE {}
          /\ ~mfunc.fp_free => Calls(run.log, "fp_free") = {}
    /\ (run.phase = "idle" /\ last.op = "evict") =>
          run.log = IF mfunc.fp_free THEN <<HookCall("fp_free", run.cur, NULL, NULL)>> ELSE <<>>

\* a tree of three nodes with an arena killer and no free hook has been torn
\* down: three deleter calls, then the killer
C22_Witness ==
    /\ run.phase = "fini" /\ mfunc = PTMemFuncT(FALSE, TRUE)
    /\ Len(run.log) = MaxNodes + 1
    /\ run.log[MaxNodes + 1].call = "fp_kill"
    /\ \A i \in 1..MaxNodes : run.log[i].call = "deleter"

\* a node has been evicted from a tree without a free hook: no hook call
C22_WitnessEvict ==
    /\ run.phase = "idle" /\ last.op = "evict" /\ ~mfunc.fp_free
    /\ run.log = <<>> /\ run.cur \in live

\* ---- C23 ----------------------------------------------------------------------
\* C23: patricia_getbit(base, nbit, i) returns 0 for i = 0; for 1 <= i <= nbit
\* bit i of the key, the most significant bit of byte 0 being bit 1; for
\* i > nbit > 0 the complement of bit nbit; and 1 for i > nbit = 0.
C23_GetBit ==
    (run.phase = "getbit") =>
        LET d == run.arg[1]
            i == run.arg[3]
        IN  /\ (i = 0) => run.cur = 0
            /\ (1 <= i /\ i <= d.len) => run.cur = KeyBit(d, i)
            /\ (i > d.len /\ d.len > 0) => run.cur = 1 - KeyBit(d, d.len)
            /\ (i > d.len /\ d.len = 0) => run.cur = 1

\* the bit after the end of a key of nine bits that ends in a one has been
\* read as zero
C23_Witness ==
    /\ run.phase = "getbit"
    /\ run.arg[1].len = 9 /\ run.arg[3] = 10
    /\ KeyBit(run.arg[1], 9) = 1 /\ run.cur = 0

\* bit 9, the first of the second byte, of a key of the greatest length has
\* been read as stored
C23_WitnessStored ==
    /\ run.phase = "getbit"
    /\ run.arg[1].len = MaxUint16 /\ run.arg[3] = 9
    /\ run.cur = 1

\* ---- C24 ----------------------------------------------------------------------
\* the two keys hold the same bits
SameKey(a, b) == a.len = b.len /\ \A i \in 1..a.len : KeyBit(a, i) = KeyBit(b, i)

\* what C24 says of one call patricia_bitdiff(a, b) that returned r
BitDiffContract(a, b, r) ==
    LET pa == KeyBuf(a)
        pb == KeyBuf(b)
        differ(i) == patricia_getbit(pa, a.len, i) # patricia_getbit(pb, b.len, i)
    IN  /\ (r = 0) <=> SameKey(a, b)
        /\ (r = 0) <=> patricia_equkey(pa, a.len, pb, b.len)
        /\ (r # 0) => (differ(r) /\ \A i \in 1..(r - 1) : ~differ(i))
        /\ patricia_bitdiff(pb, b.len, pa, a.len) = r

\* C24: for all keys, patricia_bitdiff returns the smallest index i >= 1 at
\* which patricia_getbit of the two keys differs; it returns 0 exactly when the
\* keys are equal (the same length, the same bits), which is exactly when
\* patricia_equkey returns true; the result is the same with the keys swapped.
C24_BitDiff ==
    (run.phase = "bitdiff") => BitDiffContract(run.arg[1], run.arg[2], run.cur)

\* the statement of C24 for two keys of fewer than 65535 bits
C24_BitDiffBelowMax ==
    (run.phase = "bitdiff" /\ run.arg[1].len < MaxUint16 /\ run.arg[2].len < MaxUint16) =>
        BitDiffContract(run.arg[1], run.arg[2], run.cur)

\* ---- C25 ----------------------------------------------------------------------
\* key a is a proper bit-prefix of key b
ProperPrefix(a, b) == a.len < b.len /\ \A i \in 1..a.len : KeyBit(a, i) = KeyBit(b, i)

\* the bit a key repeats after its end
ExtBit(d) == IF d.len = 0 THEN 1 ELSE 1 - KeyBit(d, d.len)

\* what C25 says of a call that returned r for the prefix s of the key l
PrefixDiffContract(s, l, r) ==
    IF ExtBit(s) # KeyBit(l, s.len + 1) THEN r = s.len + 1 ELSE r = l.len + 1

\* C25: when one key is a proper bit-prefix of the other, patricia_bitdiff
\* returns min(l1, l2) + 1 when the bit the shorter key repeats after its end
\* differs from the next bit of the longer key, and max(l1, l2) + 1 otherwise.
C25_PrefixDiff ==
    (run.phase = "bitdiff") =>
        /\ ProperPrefix(run.arg[1], run.arg[2]) =>
              PrefixDiffContract(run.arg[1], run.arg[2], run.cur)
        /\ ProperPrefix(run.arg[2], run.arg[1]) =>
              PrefixDiffContract(run.arg[2], run.arg[1], run.cur)

\* the first index after the prefix s at which the key l, continued with its
\* own repeated bit, leaves the bit s repeats
FirstAfterPrefix(s, l) ==
    LET off == {i \in (s.len + 1)..l.len : KeyBit(l, i) # ExtBit(s)}
    IN  IF off = {} THEN l.len + 1 ELSE CHOOSE i \in off : \A j \in off : i <= j

\* the statement of C25 with the case it leaves out, for keys of fewer than
\* 65535 bits: the result is the first index after the prefix at which the
\* longer key leaves the bit the shorter key repeats
C25_PrefixDiffBelowMax ==
    (run.phase = "bitdiff" /\ run.arg[1].len < MaxUint16 /\ run.arg[2].len < MaxUint16) =>
        /\ ProperPrefix(run.arg[1], run.arg[2]) =>
              run.cur = FirstAfterPrefix(run.arg[1], run.arg[2])
        /\ ProperPrefix(run.arg[2], run.arg[1]) =>
              run.cur = FirstAfterPrefix(run.arg[2], run.arg[1])

\* the statement of C25 for the keys of 65534 and 65535 bits
C25_PrefixDiffAtMax ==
    (run.phase = "bitdiff" /\ run.arg[1].len = MaxUint16 - 1 /\ run.arg[2].len = MaxUint16) =>
        (ProperPrefix(run.arg[1], run.arg[2]) =>
              PrefixDiffContract(run.arg[1], run.arg[2], run.cur))

\* ---- C26 ----------------------------------------------------------------------
\* bit i of the extended bit string of the key of node n, the first bit being
\* bit 1
NodeExtBit(h, n, i) == patricia_getbit(h[n].data, h[n].nbit, i)

\* the extended bit string of a's key is below that of b's: at their first
\* difference a has 0 and b has 1 (keys of up to m bits agree for ever once they
\* agree on the bits 1..m+1)
ExtKeyLess(h, a, b) ==
    \E i \in 1..(Max({h[a].nbit, h[b].nbit}) + 1) :
        /\ \A j \in 1..(i - 1) : NodeExtBit(h, a, j) = NodeExtBit(h, b, j)
        /\ NodeExtBit(h, a, i) = 0 /\ NodeExtBit(h, b, i) = 1

\* a whole-tree in-order pass from left to right has ended
InOrderPassDone ==
    /\ run.phase = "end" /\ run.arg = NULL /\ run.gone = {}
    /\ iter.mode = ePTMode_inOrder /\ iter.dir

\* the nodes below slot i of node n, none when the slot holds an uplink
Below(h, n, i) == IF IsDownlink(h, n, i) THEN Subtree(h, Child(h, n, i)) ELSE {}

\* the position of node n in a sequence of nodes that holds it once
PosIn(s, n) == CHOOSE i \in DOMAIN s : s[i] = n

\* C26: for every tree inserts and removes can build, a left-to-right in-order
\* pass returns the nodes by tree topology: each node after the nodes below its
\* child[0] and before the nodes below its child[1]. Every key below child[0]
\* of a node precedes every key below its child[1] in the bit-lexicographic
\* order of the extended keys, so two returned nodes are in ascending key order
\* whenever neither is below the other; the key of a node itself need not lie
\* between the keys of its two sides.
C26_TopologyOrder ==
    InOrderPassDone =>
        /\ Range(run.out) = TreeNodes(heap)
        /\ \A n \in TreeNodes(heap) :
              /\ \A a \in Below(heap, n, 0) : PosIn(run.out, a) < PosIn(run.out, n)
              /\ \A b \in Below(heap, n, 1) : PosIn(run.out, n) < PosIn(run.out, b)
              /\ \A a \in Below(heap, n, 0), b \in Below(heap, n, 1) :
                    ExtKeyLess(heap, a, b)
        /\ \A i, j \in DOMAIN run.out :
              (/\ i < j
               /\ run.out[i] \notin Subtree(heap, run.out[j])
               /\ run.out[j] \notin Subtree(heap, run.out[i]))
                  => ExtKeyLess(heap, run.out[i], run.out[j])

\* a pass over a tree of three nodes has ended; the top node has nodes on both
\* sides, the keys of the two sides ascend, and the key of the top node is
\* below the key returned before it
C26_Witness ==
    /\ InOrderPassDone /\ Len(run.out) = MaxNodes
    /\ Below(heap, run.out[2], 0) = {run.out[1]}
    /\ Below(heap, run.out[2], 1) = {run.out[3]}
    /\ ExtKeyLess(heap, run.out[1], run.out[3])
    /\ ExtKeyLess(heap, run.out[2], run.out[1])

\* C26 as stated: for every tree inserts and removes can build, the nodes a
\* left-to-right in-order pass returns are in ascending bit-lexicographic order
\* of their extended keys.
C26_KeyOrder ==
    InOrderPassDone =>
        \A i, j \in DOMAIN run.out : i < j => ExtKeyLess(heap, run.out[i], run.out[j])

\* ---- C27 ----------------------------------------------------------------------
\* C27: in every state the callers of the tree can reach, the root sentinel has
\* bpos 0 and its child[1] is the sentinel itself; its child[0] is the sentinel
\* itself exactly when the tree stores no key, and otherwise it is a node of
\* the tree with bpos > 0.
C27_RootSentinel ==
    ~aborted =>
        /\ heap[Root].bpos = 0
        /\ Child(heap, Root, 1) = Root
        /\ (Child(heap, Root, 0) = Root) <=> (DOMAIN stored = {})
        /\ (Child(heap, Root, 0) = Root) <=> (TreeNodes(heap) = {})
        /\ (Child(heap, Root, 0) # Root) =>
              /\ Child(heap, Root, 0) \in live
              /\ heap[Child(heap, Root, 0)].bpos > 0

\* C27: no call writes another value to child[1] or bpos of the root sentinel
C27_RootKept ==
    [][~aborted' => /\ Child(heap', Root, 1) = Child(heap, Root, 1)
                    /\ heap'[Root].bpos = heap[Root].bpos]_vars

\* an evict has taken the last key out of the tree: child[0] of the sentinel
\* is the sentinel again
C27_Witness ==
    /\ last.op = "evict" /\ last.ret = TRUE /\ ~aborted
    /\ live = {} /\ Child(heap, Root, 0) = Root /\ Child(heap, Root, 1) = Root

\* an evict has left a tree of two keys, the sentinel's child[0] holds a node
C27_WitnessKeys ==
    /\ last.op = "evict" /\ last.ret = TRUE /\ ~aborted
    /\ Cardinality(DOMAIN stored) = MaxNodes - 1
    /\ Child(heap, Root, 0) \in live /\ Child(heap, Root, 1) = Root

\* ---- C28 ----------------------------------------------------------------------
\* the slots of node n that hold n itself
SelfSlots(h, n) == {i \in 0..1 : Child(h, n, i) = n}

\* a node that links itself does so in one slot, the one its own key takes at
\* its branch position
SelfLinkSide(h) ==
    \A n \in TreeNodes(h) :
        /\ Cardinality(SelfSlots(h, n)) <= 1
        /\ \A i \in SelfSlots(h, n) : i = patricia_getbit(h[n].data, h[n].nbit, h[n].bpos)

\* evicting x from h makes another node take over the children and bpos of x
TakesOver(h, x) ==
    LET walk == _pwalk(h, x, h[x].data, h[x].nbit)
    IN  walk.asserts /\ walk.found /\ walk.last # x

\* C28: in every reachable state every node of the tree that has a child slot
\* pointing to itself has one such slot only, and its index is the bit of the
\* node's own key at the node's bpos; this holds for the nodes insert has
\* made and for what every evict of a node of the tree leaves, the nodes that
\* took over another node's children and bpos included.
C28_SelfLink ==
    /\ SelfLinkSide(heap)
    /\ \A x \in TreeNodes(heap) :
          SelfLinkSide(patricia_evict(heap, x, heap[x].data, heap[x].nbit).heap)

\* an insert has filled the tree, and it holds a node linked to itself in
\* slot 0 and one linked to itself in slot 1
C28_Witness ==
    /\ last.op = "insert" /\ last.ins /\ Cardinality(TreeNodes(heap)) = MaxNodes
    /\ \E a, b \in TreeNodes(heap) : SelfSlots(heap, a) = {0} /\ SelfSlots(heap, b) = {1}

\* a tree from which the evict of x makes `last` take over the place of x and
\* leaves `last` linked to itself
C28_WitnessTakeover ==
    \E x \in TreeNodes(heap) :
        /\ TakesOver(heap, x)
        /\ LET p  == _pwalk(heap, x, heap[x].data, heap[x].nbit).last
               h2 == patricia_evict(heap, x, heap[x].data, heap[x].nbit).heap
           IN  /\ SelfSlots(h2, p) # {} /\ h2[p].bpos # heap[p].bpos

\* ---- C29 ----------------------------------------------------------------------
\* slot i of p holds x, as a downlink / as an uplink
DownSlots(h, p, x) == {i \in 0..1 : Child(h, p, i) = x /\ h[x].bpos > h[p].bpos}
UpSlots(h, p, x)   == {i \in 0..1 : Child(h, p, i) = x /\ h[x].bpos <= h[p].bpos}

\* C29: for every node x of every reachable tree, the walk guided by x's own
\* key enters x through a downlink and ends at x through an uplink: _pwalk
\* returns true, `over` holds a downlink to `last`, `last` holds an uplink to
\* x, npar has been assigned and is the one node that holds a downlink to x,
\* and no assertion of _pwalk or of _evict fails.
C29_SearchPath ==
    \A x \in TreeNodes(heap) :
        LET walk == WalkOf(heap, x)
        IN  /\ walk.found /\ walk.asserts /\ walk.node = x
            /\ walk.over \in TreeNodes(heap) \cup {Root}
            /\ walk.last \in TreeNodes(heap)
            /\ DownSlots(heap, walk.over, walk.last) # {}
            /\ UpSlots(heap, walk.last, x) # {}
            /\ walk.npar # UNINIT
            /\ DownlinkParents(heap, x) = {walk.npar}
            /\ _evict(heap, walk).asserts

\* a tree in which the walk for x passes four nodes: npar (the sentinel), x,
\* `over` below x and `last` below `over`, whose uplink ends the walk at x
C29_Witness ==
    /\ last.op = "insert" /\ last.ins
    /\ \E x \in TreeNodes(heap) :
          LET walk == WalkOf(heap, x)
          IN  /\ walk.found /\ walk.npar = Root
              /\ Cardinality({walk.npar, x, walk.over, walk.last}) = 4
              /\ _evict(heap, walk).asserts

\* ---- C30 ----------------------------------------------------------------------
\* C30: the evict of a node x of the tree changes, among the nodes that stay,
\* at most one child slot of `over`, which then holds the child of `last`
\* that is not the edge to x, and, when last differs from x, one child slot of
\* npar, which then holds `last`, and the two child slots and the bpos of
\* `last`, which then hold what x held when `last` took its place; key bits,
\* nbit and payload of every node that stays are as before, and x is purged.
C30_EvictFrame ==
    /\ (run.phase = "evicted") =>
          /\ run.log \subseteq run.ref
          /\ heap[run.cur] = FreedNode /\ run.cur \notin TreeNodes(heap)
          /\ (run.arg.last # run.cur) =>
                /\ _isParentOf(heap, run.arg.npar, run.arg.last)
                /\ run.arg.last \in TreeNodes(heap)
    /\ \A x \in TreeNodes(heap) :
        LET walk == WalkOf(heap, x)
            p    == walk.last
            g    == walk.over
            z    == walk.npar
            c    == _childIdx(heap, g, p)
            rest == Child(heap, p, _otherIdx(heap, p, x))
            res  == patricia_evict(heap, x, heap[x].data, heap[x].nbit)
            h2   == res.heap
        IN  /\ res.ret /\ res.ok /\ res.freed = x
            /\ h2[x] = FreedNode
            /\ Written(heap, h2, x) \subseteq EvictFrame(heap, walk)
            /\ (g # x) => Child(h2, g, c) = rest
            /\ (p # x) =>
                  /\ Child(h2, z, _childIdx(heap, z, x)) = p
                  /\ h2[p].bpos = heap[x].bpos
                  /\ \A i \in 0..1 :
                        Child(h2, p, i) = IF g = x /\ i = c THEN rest ELSE Child(heap, x, i)
            /\ TreeNodes(h2) = TreeNodes(heap) \ {x}

\* an evict has changed a slot of `over`, a slot of npar and the bpos and a
\* slot of `last`; npar, x, `over` and `last` are four nodes
C30_Witness ==
    /\ run.phase = "evicted" /\ last.op = "evict" /\ last.ret = TRUE
    /\ Cardinality({run.arg.npar, run.cur, run.arg.over, run.arg.last}) = 4
    /\ <<run.arg.last, "bpos">> \in run.log
    /\ \E f \in {"child0", "child1"} : <<run.arg.last, f>> \in run.log
    /\ \E f \in {"child0", "child1"} : <<run.arg.over, f>> \in run.log
    /\ \E f \in {"child0", "child1"} : <<run.arg.npar, f>> \in run.log

\* ---- C31 ----------------------------------------------------------------------
\* the insert of key k, whose first walk ended at node t, has made heap h2 from
\* heap h with the new node n: one child slot of one node of h is rewritten
\* and holds n; n has the branch position bitdiff(k, key of t), itself in the
\* slot of its own key bit there and the former value of the rewritten slot in
\* the other; the owner of the slot lies above the new branch position and a
\* displaced downlink below it; nothing else differs
InsertFrame(h, h2, k, n, t) ==
    LET bpos == h2[n].bpos
        d    == patricia_getbit(k.buf, k.len, bpos)
    IN  /\ h[n] = FreedNode
        /\ TreeNodes(h2) = TreeNodes(h) \cup {n}
        /\ bpos = patricia_bitdiff(k.buf, k.len, h[t].data, h[t].nbit)
        /\ h2[n].nbit = k.len /\ h2[n].data = ptnode_create(k.buf, k.len).data
        /\ Cardinality(Written(h, h2, n)) = 1
        /\ \A w \in Written(h, h2, n) :
              /\ w[1] \in TreeNodes(h) \cup {Root}
              /\ w[2] \in {"child0", "child1"}
              /\ LET p == w[1]
                     i == IF w[2] = "child0" THEN 0 ELSE 1
                     c == Child(h, p, i)
                 IN  /\ Child(h2, p, i) = n
                     /\ Child(h2, n, d) = n
                     /\ Child(h2, n, 1 - d) = c
                     /\ h[p].bpos < bpos
                     /\ (h[c].bpos > h[p].bpos) => (h[c].bpos > bpos)

\* C31: every patricia_insert that reports a new key inserted, in either
\* build, has written one child slot of one node of the tree, which then holds
\* the new node; the new node has bpos = bitdiff(key, terminal key), a self-link
\* in the slot of its own key bit at that bpos and the former value of the
\* rewritten slot in the other; the owner of the slot has a smaller bpos, a
\* displaced downlink a greater one; nothing else has changed.
C31_InsertFrame ==
    (run.phase = "inserted" /\ last.ins) =>
        InsertFrame(run.ref, heap, run.arg, last.ret, run.cur)

\* C31 for the inserts whose branch position is not 0
C31_InsertFrameBelowMax ==
    (run.phase = "inserted" /\ last.ins /\ heap[last.ret].bpos # 0) =>
        InsertFrame(run.ref, heap, run.arg, last.ret, run.cur)

\* C31 for every insert of a short key into every tree the callers of the API
\* reach
C31_InsertFrameShort ==
    \A k \in InsertKeys :
        LET mem == fp_alloc(TRUE)
            r   == patricia_insert(heap, k.buf, k.len, PayloadOf(k), mem)
        IN  r.inserted =>
                /\ r.ok /\ r.ret = mem
                /\ InsertFrame(heap, r.heap, k, mem,
                               descend(heap, k.buf, k.len, Child(heap, Root, 0), heap[Root].bpos))

\* a key of 65535 bits has gone in below a node that is not the sentinel, at
\* a branch position that is not 0
C31_WitnessBelow ==
    /\ run.phase = "inserted" /\ last.ins /\ run.arg.len = MaxUint16
    /\ Child(heap, Root, 0) # last.ret /\ heap[last.ret].bpos # 0
    /\ InsertFrame(run.ref, heap, run.arg, last.ret, run.cur)

\* the build without assertions has inserted a key at branch position 0: the
\* sentinel's child[0] holds the new node, and no walk enters it
C31_WitnessWrap ==
    /\ run.phase = "inserted" /\ last.ins /\ heap[last.ret].bpos = 0
    /\ Child(heap, Root, 0) = last.ret /\ TreeNodes(heap) = {}

\* ---- C32 ----------------------------------------------------------------------
\* C32: in every iterator state reached from ptiter_init by ptiter_next and
\* ptiter_prev calls in any order on a tree nobody changes, the saved cursor is
\* NULL exactly when the saved arrival label is HEAD or TAIL, and is a node of
\* the iterated subtree otherwise; at TAIL ptiter_next returns NULL and leaves
\* the iterator as it is, and at HEAD ptiter_prev does.
C32_IterState ==
    (run.phase = "walk") =>
        /\ ~run.trap
        /\ (iter.nodep = NULL) <=> (iter.state \in {"head", "tail"})
        /\ (iter.nodep # NULL) => /\ iter.root # NULL
                                  /\ iter.nodep \in Subtree(heap, iter.root) \ {Root}
        /\ (iter.state = "tail") =>
              /\ ptiter_next(heap, iter).ret = NULL
              /\ ptiter_next(heap, iter).it = iter
        /\ (iter.state = "head") =>
              /\ ptiter_prev(heap, iter).ret = NULL
              /\ ptiter_prev(heap, iter).it = iter

\* ptiter_next has been called at TAIL of a subtree iteration over two nodes,
\* after steps in both directions: NULL again, and TAIL still
C32_Witness ==
    /\ run.phase = "walk" /\ iter.state = "tail" /\ iter.nodep = NULL
    /\ last.op = "ptiter_next" /\ last.ret = NULL
    /\ run.prev = <<"ptiter_next", NULL>>
    /\ run.arg # NULL /\ Len(run.ref) = MaxNodes - 1

\* the cursor rests on a node with the label C1-UP after a backward step
C32_WitnessMid ==
    /\ run.phase = "walk" /\ iter.state = "upC1" /\ iter.nodep \in TreeNodes(heap)
    /\ last.op = "ptiter_prev" /\ run.prev[1] = "ptiter_next"

\* ---- C33 ----------------------------------------------------------------------
\* C33: after ptiter_reset, called in any iterator state, every following call
\* of ptiter_next and ptiter_prev returns what the same call returns on an
\* iterator initialised afresh with the same tree, root, direction and order
\* and given the same calls; ptiter_prev right after ptiter_reset returns NULL.
C33_ResetFresh ==
    (run.phase = "rewalk" /\ last.op \in {"ptiter_next", "ptiter_prev"}) =>
        /\ last.ret = run.tret
        /\ (last.op = "ptiter_prev" /\ run.prev[1] = "ptiter_reset") => last.ret = NULL

\* C33 for ptiter_next right after ptiter_reset: it returns the first node of
\* the traversal, as on a fresh iterator
C33_ResetNext ==
    (run.phase = "rewalk" /\ last.op = "ptiter_next" /\ run.prev[1] = "ptiter_reset") =>
        /\ last.ret = run.tret
        /\ last.ret = IF run.ref = <<>> THEN NULL ELSE run.ref[1]

\* ---- C34 ----------------------------------------------------------------------
\* C34: on an unmodified tree, under any interleaving of ptiter_next and
\* ptiter_prev, the iterator is a cursor over the traversal sequence of its
\* order and direction: each call returns what the cursor returns, so
\* ptiter_prev right after a ptiter_next that returned node X returns X, and
\* ptiter_next right after a ptiter_prev that returned X returns X.
C34_Inverse ==
    (run.phase = "walk" /\ last.op \in {"ptiter_next", "ptiter_prev"}) =>
        /\ last.ret = run.want
        /\ (/\ run.prev[1] \in {"ptiter_next", "ptiter_prev"}
            /\ run.prev[1] # last.op
            /\ run.prev[2] # NULL) => last.ret = run.prev[2]

\* ---- C35 ----------------------------------------------------------------------
\* the live entries of the parent FIFO, the newest first
LiveEntries(it) == [i \in 1..it.stkLen |-> it.pstk[(it.stkTop - i) % PstkSize]]

\* next passes the validity test of iter_parentPop for node
PopValid(h, next, node) ==
    IsNode(h, next) /\ IsNode(h, node) /\ _isParentOf(h, next, node) /\ h[next].bpos < h[node].bpos

\* C35: on a tree nobody changes, in every state of the iterator, _m_stkLen is
\* at most 8 and _m_stkTop is below 8; the live entries of the FIFO are
\* consecutive downlink ancestors of the cursor inside the iterated subtree,
\* the newest being the downlink parent of the cursor, so the entry that
\* iter_parentPop takes first passes its validity test and none is discarded;
\* a FIFO that was pushed into when full holds the eight nearest ancestors.
C35_ParentFifo ==
    /\ iter.stkLen \in 0..PstkSize
    /\ iter.stkTop \in 0..(PstkSize - 1)
    /\ (iter.nodep # NULL /\ run.phase # "idle") =>
          LET e == LiveEntries(iter)
          IN  /\ iter.nodep \in Subtree(heap, iter.root)
              /\ \A i \in DOMAIN e :
                    /\ e[i] \in Subtree(heap, iter.root)
                    /\ PopValid(heap, e[i], IF i = 1 THEN iter.nodep ELSE e[i - 1])
    /\ ~run.trap

\* the cursor stands more than eight levels below the iteration root after a
\* descent, the FIFO is full, and its oldest entry is not the iteration root:
\* the pushes into the full FIFO dropped the oldest entries
C35_Witness ==
    /\ iter.nodep # NULL /\ iter.state = "down" /\ iter.stkLen = PstkSize
    /\ LiveEntries(iter)[PstkSize] # iter.root
    /\ LiveEntries(iter)[1] \in DownlinkParents(heap, iter.nodep)
    /\ last.ret # NULL

\* the FIFO was refilled by the recovery walk and holds fewer entries than it
\* has room for
C35_WitnessWalk ==
    /\ iter.nodep # NULL /\ iter.stkLen \in 1..(PstkSize - 1)
    /\ \E i \in DOMAIN run.pops : run.pops[i].walked /\ run.pops[i].ret = iter.nodep

\* ---- C36 ----------------------------------------------------------------------
\* C36: the branch position fits its 16 bits: for keys of up to 65535 bits,
\* patricia_bitdiff of two distinct keys is not zero, also when the keys first
\* differ at position 65536, so the assertion bpos != 0 of patricia_insert
\* never fails and no node but the root sentinel has bpos 0.
C36_BposFits ==
    /\ ~aborted
    /\ run.phase # "assert"
    /\ \A n \in live : heap[n].bpos # 0
    /\ (run.phase = "inserted" /\ last.ins) =>
          patricia_bitdiff(run.arg.buf, run.arg.len, heap[run.cur].data, heap[run.cur].nbit) # 0

\* C36 for keys of fewer than 65534 bits
C36_BposFitsShort ==
    \A a \in InsertKeys, b \in InsertKeys :
        (BitsOf(a) # BitsOf(b)) => patricia_bitdiff(a.buf, a.len, b.buf, b.len) \in 1..(MaxUint16 - 1)

\* ---- C37 ----------------------------------------------------------------------
\* the buffers that denote the same key as k and differ from it in the unused
\* low-order bits of the last byte
PadTwins(k) == {q \in InputKeys : q.len = k.len /\ BitsOf(q) = BitsOf(k) /\ q.buf # k.buf}

\* two heaps that hold the same nodes, links, branch positions, payloads and
\* keys; the bytes of a key may differ beyond its counted bits
SameTree(h1, h2) ==
    \A n \in DOMAIN h1 :
        IF IsNode(h1, n) /\ IsNode(h2, n)
        THEN /\ [h1[n] EXCEPT !.data = <<>>] = [h2[n] EXCEPT !.data = <<>>]
             /\ KeyBits(h1[n].data, h1[n].nbit) = KeyBits(h2[n].data, h2[n].nbit)
        ELSE h1[n] = h2[n]

\* what the operations give for the buffers k and q on the tree h
PadResultsAgree(h, k, q) ==
    /\ patricia_lookup(h, k.buf, k.len) = patricia_lookup(h, q.buf, q.len)
    /\ \A n \in {x \in DOMAIN h : IsNode(h, x)} :
          /\ patricia_equkey(k.buf, k.len, h[n].data, h[n].nbit)
                = patricia_equkey(q.buf, q.len, h[n].data, h[n].nbit)
          /\ patricia_bitdiff(k.buf, k.len, h[n].data, h[n].nbit)
                = patricia_bitdiff(q.buf, q.len, h[n].data, h[n].nbit)
    /\ patricia_equkey(k.buf, k.len, q.buf, q.len)
    /\ patricia_bitdiff(k.buf, k.len, q.buf, q.len) = 0

\* the two inserts, with the same payload and the same storage
PadInserts(h, k, q) ==
    [a |-> patricia_insert(h, k.buf, k.len, PayloadOf(k), fp_alloc(TRUE)),
     b |-> patricia_insert(h, q.buf, q.len, PayloadOf(k), fp_alloc(TRUE))]

\* C37: for two buffers that agree on the counted bits of a key and differ in
\* the unused low-order bits of its last byte, patricia_equkey,
\* patricia_bitdiff, patricia_lookup and patricia_insert return the same, and
\* the trees after the two inserts have the same nodes, links, branch
\* positions, payloads and keys; the node an insert creates holds the bytes of
\* the caller's buffer, unused bits included.
C37_PadBitsIgnored ==
    \A k \in KeysGE1 \cap InsertKeys : \A q \in PadTwins(k) :
        /\ PadResultsAgree(heap, k, q)
        /\ \A r \in {PadInserts(heap, k, q)} :
               /\ r.a.ok = r.b.ok /\ r.a.ret = r.b.ret /\ r.a.inserted = r.b.inserted
               /\ SameTree(r.a.heap, r.b.heap)
               /\ (r.a.inserted /\ r.a.ret # NULL) =>
                      /\ SubSeq(r.a.heap[r.a.ret].data, 1, Len(k.buf)) = k.buf
                      /\ SubSeq(r.b.heap[r.b.ret].data, 1, Len(q.buf)) = q.buf

\* C37 as stated: the two inserts leave the same tree, the stored bytes included
C37_SameTree ==
    \A k \in KeysGE1 \cap InsertKeys : \A q \in PadTwins(k) :
        /\ PadResultsAgree(heap, k, q)
        /\ \A r \in {PadInserts(heap, k, q)} :
               /\ r.a.ok = r.b.ok /\ r.a.ret = r.b.ret /\ r.a.inserted = r.b.inserted
               /\ r.a.heap = r.b.heap

\* a lookup has found a stored key whose last byte is partial, a buffer with
\* other unused bits finds the same node, and an insert of a key that is not
\* stored creates a node from either buffer
C37_Witness ==
    /\ last.op = "lookup" /\ last.ret # NULL /\ last.ret \in TreeNodes(heap)
    /\ heap[last.ret].nbit % CHAR_BIT # 0
    /\ \E q \in InputKeys \ InsertKeys :
          /\ BitsOf(q) = NodeBits(heap, last.ret) /\ q.buf # heap[last.ret].data
          /\ patricia_lookup(heap, q.buf, q.len) = last.ret
    /\ \E k \in KeysGE1 \cap InsertKeys : \E q \in PadTwins(k) : \E r \in {PadInserts(heap, k, q)} :
          r.a.inserted /\ r.b.inserted /\ r.a.ret # NULL /\ r.a.heap # r.b.heap

\* C37 for keys of more than one byte and keys of the greatest lengths:
\* patricia_equkey and patricia_bitdiff of a buffer and of the buffer with the
\* other unused bits
C37_PadBitsWide ==
    (run.phase \in {"bitdiff", "equkey"}) =>
        LET a == run.arg[1]
            b == run.arg[2]
            a2 == [a EXCEPT !.pad = 1 - a.pad]
            b2 == [b EXCEPT !.pad = 1 - b.pad]
        IN  IF run.phase = "bitdiff"
            THEN /\ patricia_bitdiff(KeyBuf(a2), a.len, KeyBuf(b), b.len) = run.cur
                 /\ patricia_bitdiff(KeyBuf(a), a.len, KeyBuf(b2), b.len) = run.cur
            ELSE /\ patricia_equkey(KeyBuf(a2), a.len, KeyBuf(b), b.len) = run.cur
                 /\ patricia_equkey(KeyBuf(a), a.len, KeyBuf(b2), b.len) = run.cur

\* ---- C38 ----------------------------------------------------------------------
\* every node of h but x is found by a lookup of its key in h and in h2, and
\* holds in h2 the key bytes, the key length and the payload it holds in h
SurvivorsKeep(h, h2, x) ==
    \A n \in TreeNodes(h) \ {x} :
        /\ patricia_lookup(h, h[n].data, h[n].nbit) = n
        /\ patricia_lookup(h2, h[n].data, h[n].nbit) = n
        /\ IsNode(h2, n)
        /\ h2[n].data = h[n].data
        /\ h2[n].nbit = h[n].nbit
        /\ h2[n].payload = h[n].payload

\* C38: for every key stored before and after a patricia_remove or a
\* patricia_evict of another key, patricia_lookup returns the same node before
\* and after, and the node holds the same key bytes and the same payload: a
\* deletion copies no key and no payload from one node to another; the one
\* node it purges is the node of the deleted key.
C38_SurvivorsKeep ==
    \A x \in TreeNodes(heap) :
        /\ \A r \in {patricia_evict(heap, x, heap[x].data, heap[x].nbit)} :
              /\ r.ok /\ r.ret /\ r.freed = x
              /\ SurvivorsKeep(heap, r.heap, x)
              /\ r.heap[x] = FreedNode
        /\ \A r \in {patricia_remove(heap, heap[x].data, heap[x].nbit)} :
              /\ r.ok /\ r.ret /\ r.freed = x
              /\ SurvivorsKeep(heap, r.heap, x)
              /\ r.heap[x] = FreedNode

\* an eviction has purged a node whose place another node took over: that
\* node got the branch position and the children of the purged node, it and
\* another survivor are found by lookups of their keys, and each holds the
\* payload it was built with
C38_Witness ==
    /\ run.phase = "evicted" /\ last.op = "evict" /\ last.ret = TRUE
    /\ run.arg.last # run.arg.node
    /\ <<run.arg.last, "bpos">> \in run.log
    /\ Cardinality(TreeNodes(heap)) >= 2
    /\ run.arg.last \in TreeNodes(heap)
    /\ \A n \in TreeNodes(heap) :
          /\ patricia_lookup(heap, heap[n].data, heap[n].nbit) = n
          /\ heap[n].payload = n

\* ---- C39 ----------------------------------------------------------------------
\* C39: for every sequence of vmBump_alloc calls on an arena initialised by
\* vmBump_init(blklen, blkcnt), _m_total never exceeds the limit blklen * blkcnt,
\* and a request that would take it past the limit returns NULL and leaves the
\* accounting as it was.
C39_PoolLimit ==
    /\ arena.limit = arena.blks * (arena.limit \div arena.blks)
    /\ arena.total <= arena.limit
    /\ (run.phase = "alloc" /\ last.ret = NULL /\ run.arg[3] = SysOk /\ run.cur = "ENOMEM") =>
          arena = run.ref

\* C39 for the failing requests alone: a vmBump_alloc that returns NULL for
\* the limit or for a size beyond 128 kB leaves the arena as it was
C39_FailureKeeps ==
    (run.phase = "alloc" /\ last.ret = NULL /\ run.arg[3] = SysOk) =>
        /\ run.cur \in {"ENOMEM", "ERANGE"}
        /\ arena = run.ref

\* C39 for arenas whose blocks are one page long
C39_OnePage == (arena.blks = s_pagesize) => (arena.total <= arena.limit)

====
